---------------------------- MODULE Spec2Model ----------------------------
(***************************************************************************)
(* A model of Project Nayuki's simple DEFLATE decompressor (Python port):  *)
(* python/deflatedecompress.py and its caller python/gzip-decompress.py.   *)
(*                                                                         *)
(* The four classes of the source are modelled as operators on records     *)
(* that hold the objects' fields:                                          *)
(*   BitInputStream  [pos, current_byte, num_bits_remaining, nread]        *)
(*   CanonicalCode   a function from code bits to symbols                  *)
(*   ByteHistory     [data, size, index, length]                           *)
(*   Decompressor    the variables of specification Spec                   *)
(* and each class is exercised by a specification of its own:              *)
(*   SpecBits     BitInputStream.read_bit_maybe / read_uint                *)
(*   SpecCode     CanonicalCode.__init__ / decode_next_symbol              *)
(*   SpecHistory  ByteHistory.append / copy                                *)
(*   Spec         Decompressor.__init__ (the block loop)                   *)
(*   SpecFair     Spec with the steps taken as long as one is possible     *)
(*   SpecRepair   the distance code of _decode_huffman_codes               *)
(*   SpecRange    _decode_run_length / _decode_distance with their asserts *)
(*   SpecWindow   Spec on whole streams, one longer than the window        *)
(* A raised exception is modelled as a result whose err field holds the    *)
(* exception; err = NoError means the call returned.                       *)
(* The result of a call that the code stores in a local variable is bound  *)
(* as the parameter of a local operator (LET Then(r) == ... IN Then(call)), *)
(* so that it is evaluated once; a loop over a range is evaluated by        *)
(* halving the range, first half first.  main's read of the GZIP footer     *)
(* from the same byte stream follows the decompression in Spec.             *)
(* BitInputStream.close() is teardown that the decompressor never calls;   *)
(* it is not part of the modelled life cycle.                              *)
(***************************************************************************)
EXTENDS Integers, Sequences, FiniteSets, TLC

VARIABLES
    input,       \* the bytes of the underlying byte stream (BinaryIO content)
    bitin,       \* the BitInputStream object
    lastop,      \* history: the last call made on the object under test and its result
    bitlog,      \* history: the bits read_bit_maybe has returned so far, in order
    codelengths, \* the argument of CanonicalCode.__init__
    code,        \* the CanonicalCode object under test, or the exception of its constructor
    dictionary,  \* the ByteHistory object
    output,      \* the bytes written to the output stream, in order
    pc,          \* where the Decompressor constructor is in its block loop
    isfinal,     \* bfinal of the block being decompressed
    type,        \* btype of the block being decompressed
    litlencode,  \* the literal/length code of the Huffman block being decompressed
    distcode,    \* its distance code, or None
    err,         \* the exception that ended the decompression, if any
    blocks,      \* history: the block headers read so far and what became of each block
    footer       \* the GZIP footer read by main after the decompression

\* The variables of the Decompressor specification alone.
decvars == <<pc, isfinal, type, litlencode, distcode, err, blocks, footer>>

vars == <<input, bitin, lastop, bitlog, codelengths, code, dictionary, output, decvars>>

-----------------------------------------------------------------------------
(* Bounds of the model.                                                    *)

\* Longest input of the bit-stream specification, in bytes.
MaxBitsInputLen == 2
\* read_uint is called with 0 .. MaxNumBits bits in the bit-stream specification.
MaxNumBits == 9

\* The byte values the bit-stream specification draws its input from.
BitsAlphabet == {0, 1, 135, 165, 255}

\* The code-length vectors of the canonical-code specification have at most
\* MaxSymbols entries, each in 0 .. MaxCodeLength.
MaxSymbols == 4
MaxCodeLength == 3

\* The byte-history specification: a history of HistorySize bytes, copies of
\* at most MaxCopyCount bytes, and at most MaxHistoryStream bytes appended.
HistorySize == 3
MaxCopyCount == 4
MaxHistoryStream == 7
\* The byte values appended in the byte-history specification.
HistoryAlphabet == {7, 9}

\* The Decompressor specification runs on every input of at most MaxInputLen
\* bytes over InputAlphabet, and on every prefix of the streams of
\* CraftedStreams.
MaxInputLen == 4
InputAlphabet == {0, 1, 2, 3, 7, 12, 255}

-----------------------------------------------------------------------------
(* Python's integer operators.                                             *)

NoError == "none"
EOFError == "EOFError: Unexpected end of stream"

RECURSIVE Pow2(_)
\* 1 << n
Pow2(n) == IF n = 0 THEN 1 ELSE 2 * Pow2(n - 1)

\* x << n
Shl(x, n) == x * Pow2(n)

\* x >> n, for x >= 0
Shr(x, n) == x \div Pow2(n)

RECURSIVE BitAnd(_, _)
\* x & y, for x, y >= 0
BitAnd(x, y) ==
    IF x = 0 \/ y = 0 THEN 0
    ELSE (IF x % 2 = 1 /\ y % 2 = 1 THEN 1 ELSE 0) + 2 * BitAnd(x \div 2, y \div 2)

RECURSIVE BitOr(_, _)
\* x | y, for x, y >= 0
BitOr(x, y) ==
    IF x = 0 THEN y
    ELSE IF y = 0 THEN x
    ELSE (IF x % 2 = 1 \/ y % 2 = 1 THEN 1 ELSE 0) + 2 * BitOr(x \div 2, y \div 2)

RECURSIVE BitXor(_, _)
\* x ^ y, for x, y >= 0
BitXor(x, y) ==
    IF x = 0 THEN y
    ELSE IF y = 0 THEN x
    ELSE (IF x % 2 # y % 2 THEN 1 ELSE 0) + 2 * BitXor(x \div 2, y \div 2)

-----------------------------------------------------------------------------
(* class BitInputStream.  pos is the position of the underlying byte       *)
(* stream (the number of bytes read(1) has returned); nread is a history   *)
(* field counting the bits returned.                                       *)

\* BitInputStream.__init__
BitInputStream(startpos) ==
    [pos |-> startpos, current_byte |-> 0, num_bits_remaining |-> 0, nread |-> 0]

\* get_bit_position with the sign of the remainder dropped.
GetBitPositionNoNegate(s) == s.num_bits_remaining % 8

\* BitInputStream.get_bit_position: -num_bits_remaining % 8
GetBitPosition(s) == (0 - s.num_bits_remaining) % 8

\* The assertion of get_bit_position.
BitPositionAssertion(s) == 0 <= s.num_bits_remaining /\ s.num_bits_remaining <= 7

\* read_bit_maybe that reports the end of the stream as soon as the reader is
\* exhausted, dropping the bits left in the current byte.
ReadBitMaybeEarlyEnd(inp, s) ==
    IF s.current_byte = -1 \/ s.pos >= Len(inp)
    THEN [s |-> [s EXCEPT !.current_byte = -1], bit |-> -1]
    ELSE LET cur == IF s.num_bits_remaining = 0 THEN inp[s.pos + 1] ELSE s.current_byte
             rem == (IF s.num_bits_remaining = 0 THEN 8 ELSE s.num_bits_remaining) - 1
         IN [s |-> [pos |-> IF s.num_bits_remaining = 0 THEN s.pos + 1 ELSE s.pos,
                    current_byte |-> cur, num_bits_remaining |-> rem,
                    nread |-> s.nread + 1],
             bit |-> BitAnd(Shr(cur, 7 - rem), 1)]

\* read_bit_maybe that pulls the next byte as soon as the current one is used up.
ReadBitMaybeEager(inp, s) ==
    IF s.current_byte = -1 THEN [s |-> s, bit |-> -1]
    ELSE IF s.num_bits_remaining = 0 /\ s.pos >= Len(inp)
    THEN [s |-> [s EXCEPT !.current_byte = -1], bit |-> -1]
    ELSE LET cur == IF s.num_bits_remaining = 0 THEN inp[s.pos + 1] ELSE s.current_byte
             rem == (IF s.num_bits_remaining = 0 THEN 8 ELSE s.num_bits_remaining) - 1
             pos == IF s.num_bits_remaining = 0 THEN s.pos + 1 ELSE s.pos
         IN [s |-> [pos |-> IF rem = 0 /\ pos < Len(inp) THEN pos + 1 ELSE pos,
                    current_byte |-> IF rem = 0 /\ pos < Len(inp) THEN inp[pos + 1] ELSE cur,
                    num_bits_remaining |-> IF rem = 0 /\ pos < Len(inp) THEN 8 ELSE rem,
                    nread |-> s.nread + 1],
             bit |-> BitAnd(Shr(cur, 7 - rem), 1)]

\* BitInputStream.read_bit_maybe: the stream after the call and the bit
\* returned (0, 1, or -1 at the end of the stream).
ReadBitMaybe(inp, s) ==
    IF s.current_byte = -1 THEN [s |-> s, bit |-> -1]
    ELSE IF s.num_bits_remaining = 0 /\ s.pos >= Len(inp)
    THEN \* self._input.read(1) returned no byte
         [s |-> [s EXCEPT !.current_byte = -1], bit |-> -1]
    ELSE LET cur == IF s.num_bits_remaining = 0 THEN inp[s.pos + 1] ELSE s.current_byte
             rem == (IF s.num_bits_remaining = 0 THEN 8 ELSE s.num_bits_remaining) - 1
         IN [s |-> [pos |-> IF s.num_bits_remaining = 0 THEN s.pos + 1 ELSE s.pos,
                    current_byte |-> cur, num_bits_remaining |-> rem,
                    nread |-> s.nread + 1],
             bit |-> BitAnd(Shr(cur, 7 - rem), 1)]

RECURSIVE ReadUintLoop(_, _, _, _, _)
\* The loop of read_uint from iteration i on, with the result so far.
ReadUintLoop(inp, s, numbits, i, result) ==
    IF i >= numbits THEN [s |-> s, val |-> result, err |-> NoError]
    ELSE LET Shift(r) ==
                 IF r.bit = -1 THEN [s |-> r.s, val |-> -1, err |-> EOFError]
                 ELSE ReadUintLoop(inp, r.s, numbits, i + 1, BitOr(result, Shl(r.bit, i)))
         IN Shift(ReadBitMaybe(inp, s))

RECURSIVE ReadUintBigEndianLoop(_, _, _, _, _)
ReadUintBigEndianLoop(inp, s, numbits, i, result) ==
    IF i >= numbits THEN [s |-> s, val |-> result, err |-> NoError]
    ELSE LET Shift(r) ==
                 IF r.bit = -1 THEN [s |-> r.s, val |-> -1, err |-> EOFError]
                 ELSE ReadUintBigEndianLoop(inp, r.s, numbits, i + 1,
                                            BitOr(Shl(result, 1), r.bit))
         IN Shift(ReadBitMaybe(inp, s))

\* read_uint that packs the bits most significant first.
ReadUintBigEndian(inp, s, numbits) ==
    IF numbits < 0 THEN [s |-> s, val |-> -1, err |-> "ValueError: Number of bits out of range"]
    ELSE ReadUintBigEndianLoop(inp, s, numbits, 0, 0)

\* BitInputStream.read_uint: the stream after the call, the value returned
\* and the exception raised.
ReadUint(inp, s, numbits) ==
    IF numbits < 0 THEN [s |-> s, val |-> -1, err |-> "ValueError: Number of bits out of range"]
    ELSE ReadUintLoop(inp, s, numbits, 0, 0)

-----------------------------------------------------------------------------
(* class CanonicalCode.  The object is its field code_bits_to_symbol, a    *)
(* dictionary modelled as a function from its keys to symbols.             *)

OverfullError == "ValueError: This canonical code produces an over-full Huffman code tree"
UnderfullError == "ValueError: This canonical code produces an under-full Huffman code tree"
NegativeLengthError == "ValueError: Negative code length"
EmptyMaxError == "ValueError: max() arg is an empty sequence"

\* The value of `code` before the constructor has run.
NotConstructed == [err |-> "not constructed", code_bits_to_symbol |-> <<>>]

\* max(codelengths), for a non-empty sequence
MaxOf(q) == CHOOSE m \in {q[i] : i \in 1 .. Len(q)} : \A i \in 1 .. Len(q) : q[i] <= m

\* dict.get(key, -1)
DictGet(d, key) == IF key \in DOMAIN d THEN d[key] ELSE -1

\* d[key] = value
DictSet(d, key, value) == (key :> value) @@ d

\* The body of the inner loop of the constructor for the symbol at index i
\* (symbol i - 1: Python counts the symbols from 0, the sequence from 1).  st
\* holds nextcode, the dictionary d, and the exception once one was raised.
CodeSymbolStep(lens, codelength, i, st) ==
    IF st.err # NoError THEN st
    ELSE IF lens[i] # codelength THEN st
    ELSE IF st.nextcode >= Shl(1, codelength) THEN [st EXCEPT !.err = OverfullError]
    ELSE [err |-> NoError,
          nextcode |-> st.nextcode + 1,
          d |-> DictSet(st.d, BitOr(Shl(1, codelength), st.nextcode), i - 1)]

RECURSIVE CodeSymbolLoop(_, _, _, _, _)
\* The inner loop of the constructor, "for (symbol, cl) in enumerate(codelengths)",
\* over the symbols at the indices lo .. hi in ascending order (the range is
\* halved to keep the evaluation shallow).
CodeSymbolLoop(lens, codelength, lo, hi, st) ==
    IF lo > hi THEN st
    ELSE IF lo = hi THEN CodeSymbolStep(lens, codelength, lo, st)
    ELSE LET Rest(left) ==
                 IF left.err # NoError THEN left
                 ELSE CodeSymbolLoop(lens, codelength, ((lo + hi) \div 2) + 1, hi, left)
         IN Rest(CodeSymbolLoop(lens, codelength, lo, (lo + hi) \div 2, st))

RECURSIVE CodeLengthLoop(_, _, _, _)
\* The outer loop of the constructor, "for codelength in range(1, max + 1)".
CodeLengthLoop(lens, codelength, maxlen, st) ==
    IF codelength > maxlen \/ st.err # NoError THEN st
    ELSE CodeLengthLoop(lens, codelength + 1, maxlen,
                        CodeSymbolLoop(lens, codelength, 1, Len(lens),
                                       [st EXCEPT !.nextcode = Shl(st.nextcode, 1)]))

\* The constructor's state before its loops: nextcode = 0, an empty dictionary.
CodeLoopStart == [err |-> NoError, nextcode |-> 0, d |-> <<>>]

\* The constructor without its final check for an under-full tree.
CanonicalCodeNoUnderfullCheck(lens) ==
    IF \E i \in 1 .. Len(lens) : lens[i] < 0
    THEN [err |-> NegativeLengthError, code_bits_to_symbol |-> <<>>]
    ELSE IF Len(lens) = 0
    THEN [err |-> EmptyMaxError, code_bits_to_symbol |-> <<>>]
    ELSE LET Built(r) ==
                 IF r.err # NoError THEN [err |-> r.err, code_bits_to_symbol |-> <<>>]
                 ELSE [err |-> NoError, code_bits_to_symbol |-> r.d]
         IN Built(CodeLengthLoop(lens, 1, MaxOf(lens), CodeLoopStart))

\* The constructor with a vector whose maximum is 0 accepted as an empty code.
CanonicalCodeEmptyAllowed(lens) ==
    IF \E i \in 1 .. Len(lens) : lens[i] < 0
    THEN [err |-> NegativeLengthError, code_bits_to_symbol |-> <<>>]
    ELSE IF Len(lens) = 0
    THEN [err |-> EmptyMaxError, code_bits_to_symbol |-> <<>>]
    ELSE IF MaxOf(lens) = 0
    THEN [err |-> NoError, code_bits_to_symbol |-> <<>>]
    ELSE LET Built(r) ==
                 IF r.err # NoError THEN [err |-> r.err, code_bits_to_symbol |-> <<>>]
                 ELSE IF r.nextcode # Shl(1, MaxOf(lens))
                 THEN [err |-> UnderfullError, code_bits_to_symbol |-> <<>>]
                 ELSE [err |-> NoError, code_bits_to_symbol |-> r.d]
         IN Built(CodeLengthLoop(lens, 1, MaxOf(lens), CodeLoopStart))

\* CanonicalCode.__init__: the exception raised, or NoError and the dictionary.
CanonicalCode(lens) ==
    IF \E i \in 1 .. Len(lens) : lens[i] < 0
    THEN [err |-> NegativeLengthError, code_bits_to_symbol |-> <<>>]
    ELSE IF Len(lens) = 0
    THEN \* max() of an empty sequence raises ValueError
         [err |-> EmptyMaxError, code_bits_to_symbol |-> <<>>]
    ELSE LET Built(r) ==
                 IF r.err # NoError THEN [err |-> r.err, code_bits_to_symbol |-> <<>>]
                 ELSE IF r.nextcode # Shl(1, MaxOf(lens))
                 THEN [err |-> UnderfullError, code_bits_to_symbol |-> <<>>]
                 ELSE [err |-> NoError, code_bits_to_symbol |-> r.d]
         IN Built(CodeLengthLoop(lens, 1, MaxOf(lens), CodeLoopStart))

RECURSIVE DecodeLoop(_, _, _, _)
\* The loop of decode_next_symbol with the code bits accumulated so far.
DecodeLoop(d, inp, s, codebits) ==
    LET Look(t, bits, result) ==
            IF result # -1 THEN [s |-> t, val |-> result, err |-> NoError]
            ELSE DecodeLoop(d, inp, t, bits)
        Shift(r) ==
            IF r.err # NoError THEN [s |-> r.s, val |-> -1, err |-> r.err]
            ELSE Look(r.s, BitOr(Shl(codebits, 1), r.val),
                      DictGet(d, BitOr(Shl(codebits, 1), r.val)))
    IN Shift(ReadUint(inp, s, 1))

\* decode_next_symbol that starts without the start bit.
DecodeNextSymbolNoStartBit(d, inp, s) == DecodeLoop(d, inp, s, 0)

\* CanonicalCode.decode_next_symbol: the stream after the call, the symbol
\* returned and the exception raised.
DecodeNextSymbol(d, inp, s) == DecodeLoop(d, inp, s, 1)

-----------------------------------------------------------------------------
(* class ByteHistory.  data, a list of `size` bytes that starts as all     *)
(* zeros, is modelled by the cells written so far: a cell outside DOMAIN   *)
(* data still holds 0.  log is a history field: every byte passed to       *)
(* append, in order.                                                       *)

InvalidCopyError == "ValueError: Invalid count or distance"
AssertionError == "AssertionError"

\* The value of `dictionary` where no ByteHistory exists.
NoHistory == [data |-> <<>>, size |-> 0, index |-> 0, length |-> 0, log |-> <<>>]

\* ByteHistory.__init__, for size >= 1
ByteHistory(size) == [data |-> <<>>, size |-> size, index |-> 0, length |-> 0, log |-> <<>>]

\* self._data[i]
DataGet(h, i) == IF i \in DOMAIN h.data THEN h.data[i] ELSE 0

\* min(a, b)
Min(a, b) == IF a <= b THEN a ELSE b

\* The assertion of append.
AppendAssertion(h) == 0 <= h.index /\ h.index < h.size

\* ByteHistory.append
HistoryAppend(h, b) ==
    [data |-> (h.index :> b) @@ h.data,
     size |-> h.size,
     index |-> (h.index + 1) % h.size,
     length |-> Min(h.length + 1, h.size),
     log |-> Append(h.log, b)]

\* The body of the loop of copy.  st holds the history, readindex, the
\* output stream, and the exception once one was raised (by the assertion of
\* append).
CopyStep(st) ==
    LET Put(b) ==
            IF ~AppendAssertion(st.h)
            THEN [st EXCEPT !.readindex = (st.readindex + 1) % st.h.size,
                            !.out = Append(st.out, b), !.err = AssertionError]
            ELSE [h |-> HistoryAppend(st.h, b),
                  readindex |-> (st.readindex + 1) % st.h.size,
                  out |-> Append(st.out, b),
                  err |-> NoError]
    IN Put(DataGet(st.h, st.readindex))

RECURSIVE CopyLoop(_, _)
\* "for _ in range(count)" of copy: count iterations of the body, one after the
\* other, left when the body raises (the count is halved to keep the
\* evaluation shallow).
CopyLoop(st, count) ==
    IF count <= 0 \/ st.err # NoError THEN st
    ELSE IF count = 1 THEN CopyStep(st)
    ELSE LET Rest(left) ==
                 IF left.err # NoError THEN left
                 ELSE CopyLoop(left, count - (count \div 2))
         IN Rest(CopyLoop(st, count \div 2))

\* The state of the loop of copy when it is entered.
CopyStart(h, dist, out) ==
    [h |-> h, readindex |-> (h.index - dist) % h.size, out |-> out, err |-> NoError]

\* A copy loop body that reads the history as it was when the copy began (h0).
BulkCopyStep(h0, st) ==
    LET Put(b) ==
            [h |-> HistoryAppend(st.h, b),
             readindex |-> (st.readindex + 1) % st.h.size,
             out |-> Append(st.out, b),
             err |-> NoError]
    IN Put(DataGet(h0, st.readindex))

RECURSIVE BulkCopyLoop(_, _, _)
BulkCopyLoop(h0, st, count) ==
    IF count <= 0 \/ st.err # NoError THEN st
    ELSE IF count = 1 THEN BulkCopyStep(h0, st)
    ELSE LET Rest(left) ==
                 IF left.err # NoError THEN left
                 ELSE BulkCopyLoop(h0, left, count - (count \div 2))
         IN Rest(BulkCopyLoop(h0, st, count \div 2))

\* copy as a bulk copy of the bytes present before the call.
HistoryCopyBulk(h, dist, count, out) ==
    IF count < 0 \/ ~(1 <= dist /\ dist <= h.length)
    THEN [h |-> h, out |-> out, err |-> InvalidCopyError]
    ELSE LET Copied(r) == [h |-> r.h, out |-> r.out, err |-> r.err]
         IN Copied(BulkCopyLoop(h, CopyStart(h, dist, out), count))

\* copy that checks the distance against the size instead of the length and
\* does not check the count.
HistoryCopyWeakCheck(h, dist, count, out) ==
    IF ~(1 <= dist /\ dist <= h.size)
    THEN [h |-> h, out |-> out, err |-> InvalidCopyError]
    ELSE LET Copied(r) == [h |-> r.h, out |-> r.out, err |-> r.err]
         IN Copied(CopyLoop(CopyStart(h, dist, out), count))

\* ByteHistory.copy: the history and the output stream after the call, and
\* the exception raised.
HistoryCopy(h, dist, count, out) ==
    IF count < 0 \/ ~(1 <= dist /\ dist <= h.length)
    THEN [h |-> h, out |-> out, err |-> InvalidCopyError]
    ELSE LET Copied(r) == [h |-> r.h, out |-> r.out, err |-> r.err]
         IN Copied(CopyLoop(CopyStart(h, dist, out), count))

-----------------------------------------------------------------------------
(* class Decompressor: the helpers of the block loop.  Each takes the      *)
(* input bytes and the objects it works on and returns them as they are    *)
(* when it returns or raises.                                              *)

ReservedBlockTypeError == "ValueError: Reserved block type"
InvalidStoredLengthError == "ValueError: Invalid length in uncompressed block"
NoLengthToCopyError == "ValueError: No code length value to copy"
RunExceedsError == "ValueError: Run exceeds number of codes"
EmptyDistanceCodeError == "ValueError: Length symbol encountered with empty distance code"
ReservedLengthSymbolError == "ValueError: Reserved length symbol"
ReservedDistanceSymbolError == "ValueError: Reserved distance symbol"

\* ByteHistory(32 * 1024)
DictionarySize == 32 * 1024

\* The largest number of distance code lengths a dynamic header can declare:
\* read_uint(5) + 1
MaxDistCodes == 32

\* A variable of type Optional[CanonicalCode]: None, or a code.
NoneCode == [isnone |-> TRUE, code_bits_to_symbol |-> <<>>]
SomeCode(d) == [isnone |-> FALSE, code_bits_to_symbol |-> d]

\* _FIXED_LITERAL_LENGTH_CODE = CanonicalCode([8]*144 + [9]*112 + [7]*24 + [8]*8)
FIXED_LITERAL_LENGTH_CODE ==
    CanonicalCode([i \in 1 .. 288 |->
                      IF i <= 144 THEN 8 ELSE IF i <= 256 THEN 9
                      ELSE IF i <= 280 THEN 7 ELSE 8]).code_bits_to_symbol

\* _FIXED_DISTANCE_CODE = CanonicalCode([5] * 32)
FIXED_DISTANCE_CODE == CanonicalCode([i \in 1 .. 32 |-> 5]).code_bits_to_symbol

RECURSIVE ReadFields(_, _, _, _, _)
\* Consecutive read_uint calls with the bit counts widths[i ..]; vals are the
\* values read so far.  The first call that raises ends the sequence.
ReadFields(inp, s, widths, i, vals) ==
    IF i > Len(widths) THEN [s |-> s, vals |-> vals, err |-> NoError]
    ELSE LET Field(r) ==
                 IF r.err # NoError THEN [s |-> r.s, vals |-> vals, err |-> r.err]
                 ELSE ReadFields(inp, r.s, widths, i + 1, Append(vals, r.val))
         IN Field(ReadUint(inp, s, widths[i]))

RECURSIVE CodeLenCodeLenLoop(_, _, _, _, _)
\* "for i in range(numcodelencodes - 4)" of _decode_huffman_codes.  cl is
\* codelencodelen, whose entry for symbol j is cl[j + 1].
CodeLenCodeLenLoop(inp, s, i, n, cl) ==
    IF i >= n THEN [s |-> s, cl |-> cl, err |-> NoError]
    ELSE LET Store(j, r) ==
                 IF r.err # NoError THEN [s |-> r.s, cl |-> cl, err |-> r.err]
                 ELSE CodeLenCodeLenLoop(inp, r.s, i + 1, n, [cl EXCEPT ![j + 1] = r.val])
         IN Store(IF i % 2 = 0 THEN 8 + (i \div 2) ELSE 7 - (i \div 2), ReadUint(inp, s, 3))

\* A run one entry longer than asked for.
RepeatOneMore(x, n) == [i \in 1 .. n + 1 |-> x]

\* [x] * n
Repeat(x, n) == [i \in 1 .. n |-> x]

\* The body of the loop of _decode_huffman_codes that reads the code
\* lengths.  st holds the stream, codelens, and the exception once one was
\* raised; its field syms records every symbol decoded with the value of the
\* extra bits read after it (0 when it has none, -1 when they were not read).
CodeLensStep(inp, codelencode, st) ==
    LET Raised(t, e, syms) ==
            [s |-> t, codelens |-> st.codelens, err |-> e, syms |-> syms]
        Extended(t, run, sym, extra) ==
            [s |-> t, codelens |-> st.codelens \o run, err |-> NoError,
             syms |-> Append(st.syms, [sym |-> sym, extra |-> extra])]
        \* a run of runval, of the length x read plus base
        Run(x, runval, base, sym) ==
            IF x.err # NoError
            THEN Raised(x.s, x.err, Append(st.syms, [sym |-> sym, extra |-> -1]))
            ELSE Extended(x.s, Repeat(runval, x.val + base), sym, x.val)
        Symbol(t, sym) ==
            IF 0 <= sym /\ sym <= 15 THEN Extended(t, <<sym>>, sym, 0)
            ELSE IF sym = 16
            THEN IF Len(st.codelens) = 0
                 THEN Raised(t, NoLengthToCopyError,
                             Append(st.syms, [sym |-> sym, extra |-> -1]))
                 ELSE Run(ReadUint(inp, t, 2), st.codelens[Len(st.codelens)], 3, sym)
            ELSE IF sym = 17 THEN Run(ReadUint(inp, t, 3), 0, 3, sym)
            ELSE IF sym = 18 THEN Run(ReadUint(inp, t, 7), 0, 11, sym)
            ELSE Raised(t, AssertionError, st.syms)
        Decoded(r) ==
            IF r.err # NoError THEN Raised(r.s, r.err, st.syms) ELSE Symbol(r.s, r.val)
    IN Decoded(DecodeNextSymbol(codelencode, inp, st.s))

RECURSIVE CodeLensLoop(_, _, _, _, _)
\* "while len(codelens) < numlitlencodes + numdistcodes": the body is run
\* until the condition fails or it raises.  Every iteration that returns
\* lengthens codelens, so the loop makes at most `total` iterations; n bounds
\* the iterations still to run and is halved to keep the evaluation shallow.
CodeLensLoop(inp, codelencode, total, st, n) ==
    IF n <= 0 \/ st.err # NoError \/ Len(st.codelens) >= total THEN st
    ELSE IF n = 1 THEN CodeLensStep(inp, codelencode, st)
    ELSE LET Rest(left) ==
                 IF left.err # NoError THEN left
                 ELSE CodeLensLoop(inp, codelencode, total, left, n - (n \div 2))
         IN Rest(CodeLensLoop(inp, codelencode, total, st, n \div 2))

\* The distance code lengths passed on as they were read, without a dummy code.
DistCodeLenNoDummy(distcodelen) == distcodelen

\* The distance code lengths as they are passed to CanonicalCode: a vector with
\* one length 1 and no longer length gets the dummy code 31.
DistCodeLen(distcodelen) ==
    LET Dummy(onecount, otherpositivecount) ==
            IF onecount = 1 /\ otherpositivecount = 0
            THEN [i \in 1 .. 32 |-> IF i = 32 THEN 1
                                    ELSE IF i <= Len(distcodelen) THEN distcodelen[i] ELSE 0]
            ELSE distcodelen
    IN Dummy(Cardinality({i \in 1 .. Len(distcodelen) : distcodelen[i] = 1}),
             Cardinality({i \in 1 .. Len(distcodelen) : distcodelen[i] > 1}))

\* The distance code constructed from the vector [0] as from any other.
DistanceCodeNeverNone(distcodelen) ==
    LET Built(lens, c) ==
            [passed |-> lens,
             distcode |-> IF c.err = NoError THEN SomeCode(c.code_bits_to_symbol)
                          ELSE NoneCode,
             err |-> c.err]
        Passed(lens) == Built(lens, CanonicalCode(lens))
    IN Passed(DistCodeLen(distcodelen))

\* The distance code of _decode_huffman_codes: None for the vector [0],
\* otherwise the code constructed from the lengths passed to CanonicalCode
\* (kept in the field passed), or the exception of the constructor.
DistanceCode(distcodelen) ==
    LET Built(lens, c) ==
            [passed |-> lens,
             distcode |-> IF c.err = NoError THEN SomeCode(c.code_bits_to_symbol)
                          ELSE NoneCode,
             err |-> c.err]
        Passed(lens) == Built(lens, CanonicalCode(lens))
    IN IF Len(distcodelen) = 1 /\ distcodelen[1] = 0
       THEN [passed |-> <<>>, distcode |-> NoneCode, err |-> NoError]
       ELSE Passed(DistCodeLen(distcodelen))

\* The second half of _decode_huffman_codes: from the code lengths read to the
\* two codes.
BuildHuffmanCodes(s, codelens, numlitlencodes, numdistcodes) ==
    LET Failed(e) == [s |-> s, litlencode |-> NoneCode, distcode |-> NoneCode, err |-> e]
        Both(litlen, dist) ==
            IF dist.err # NoError THEN Failed(dist.err)
            ELSE [s |-> s,
                  litlencode |-> SomeCode(litlen.code_bits_to_symbol),
                  distcode |-> dist.distcode,
                  err |-> NoError]
        Codes(litlen, distcodelen) ==
            IF litlen.err # NoError THEN Failed(litlen.err)
            ELSE Both(litlen, DistanceCode(distcodelen))
    IN IF Len(codelens) > numlitlencodes + numdistcodes THEN Failed(RunExceedsError)
       ELSE Codes(CanonicalCode(SubSeq(codelens, 1, numlitlencodes)),
                  SubSeq(codelens, numlitlencodes + 1, Len(codelens)))

\* Decompressor._decode_huffman_codes: the stream after the call, the two
\* codes returned and the exception raised; and, for the record, its locals
\* numlitlencodes, numdistcodes and codelens, the code length symbols decoded
\* (syms) and whether the loop that reads the code lengths was entered.
DecodeHuffmanCodes(inp, s) ==
    LET Failed(t, e, numlitlencodes, numdistcodes) ==
            [s |-> t, litlencode |-> NoneCode, distcode |-> NoneCode, err |-> e,
             numlitlencodes |-> numlitlencodes, numdistcodes |-> numdistcodes,
             codelens |-> <<>>, syms |-> <<>>, looped |-> FALSE]
        Returned(r, l, numlitlencodes, numdistcodes) ==
            [s |-> r.s, litlencode |-> r.litlencode, distcode |-> r.distcode, err |-> r.err,
             numlitlencodes |-> numlitlencodes, numdistcodes |-> numdistcodes,
             codelens |-> l.codelens, syms |-> l.syms, looped |-> TRUE]
        Lengths(l, numlitlencodes, numdistcodes) ==
            IF l.err # NoError
            THEN Returned([s |-> l.s, litlencode |-> NoneCode, distcode |-> NoneCode,
                           err |-> l.err], l, numlitlencodes, numdistcodes)
            ELSE Returned(BuildHuffmanCodes(l.s, l.codelens, numlitlencodes, numdistcodes),
                          l, numlitlencodes, numdistcodes)
        CodeLenCode(t, codelencode, numlitlencodes, numdistcodes) ==
            IF codelencode.err # NoError
            THEN Failed(t, codelencode.err, numlitlencodes, numdistcodes)
            ELSE Lengths(CodeLensLoop(inp, codelencode.code_bits_to_symbol,
                                      numlitlencodes + numdistcodes,
                                      [s |-> t, codelens |-> <<>>, err |-> NoError,
                                       syms |-> <<>>],
                                      numlitlencodes + numdistcodes),
                         numlitlencodes, numdistcodes)
        CodeLenCodeLen(c, numlitlencodes, numdistcodes) ==
            IF c.err # NoError THEN Failed(c.s, c.err, numlitlencodes, numdistcodes)
            ELSE CodeLenCode(c.s, CanonicalCode(c.cl), numlitlencodes, numdistcodes)
        \* h: numlitlencodes - 257, numdistcodes - 1, numcodelencodes - 4, and
        \* the lengths of the code length symbols 16, 17, 18, 0
        Header(h) ==
            IF h.err # NoError THEN Failed(h.s, h.err, 0, 0)
            ELSE CodeLenCodeLen(
                     CodeLenCodeLenLoop(inp, h.s, 0, h.vals[3],
                                        [j \in 1 .. 19 |->
                                            IF j = 17 THEN h.vals[4]
                                            ELSE IF j = 18 THEN h.vals[5]
                                            ELSE IF j = 19 THEN h.vals[6]
                                            ELSE IF j = 1 THEN h.vals[7]
                                            ELSE 0]),
                     h.vals[1] + 257, h.vals[2] + 1)
    IN Header(ReadFields(inp, s, <<5, 5, 4, 3, 3, 3, 3>>, 1, <<>>))

\* The alignment loop left out: no bit is discarded.
AlignLoopNone(inp, s) == [s |-> s, err |-> NoError]

RECURSIVE AlignLoop(_, _)
\* "while self._input.get_bit_position() != 0: self._input.read_uint(1)"
AlignLoop(inp, s) ==
    IF ~BitPositionAssertion(s) THEN [s |-> s, err |-> AssertionError]
    ELSE IF GetBitPosition(s) = 0 THEN [s |-> s, err |-> NoError]
    ELSE LET Discard(r) ==
                 IF r.err # NoError THEN [s |-> r.s, err |-> r.err] ELSE AlignLoop(inp, r.s)
         IN Discard(ReadUint(inp, s, 1))

\* The loop body that writes the byte without appending it to the dictionary.
StoredCopyStepNoAppend(inp, st) ==
    LET Put(r) ==
            IF r.err # NoError THEN [st EXCEPT !.s = r.s, !.err = r.err]
            ELSE IF r.val = -1 THEN [st EXCEPT !.s = r.s, !.err = EOFError]
            ELSE [s |-> r.s, h |-> st.h, out |-> Append(st.out, r.val), err |-> NoError]
    IN Put(ReadUint(inp, st.s, 8))

\* The body of "for _ in range(len)" of _decompress_uncompressed_block.  st
\* holds the stream, the history, the output stream, and the exception once
\* one was raised.
StoredCopyStep(inp, st) ==
    LET Put(r) ==
            IF r.err # NoError THEN [st EXCEPT !.s = r.s, !.err = r.err]
            ELSE IF r.val = -1 THEN [st EXCEPT !.s = r.s, !.err = EOFError]
            ELSE IF ~AppendAssertion(st.h)
            THEN [st EXCEPT !.s = r.s, !.out = Append(st.out, r.val),
                            !.err = AssertionError]
            ELSE [s |-> r.s, h |-> HistoryAppend(st.h, r.val),
                  out |-> Append(st.out, r.val), err |-> NoError]
    IN Put(ReadUint(inp, st.s, 8))

RECURSIVE StoredCopyLoop(_, _, _)
\* "for _ in range(len)": n iterations of the body, one after the other, left
\* when the body raises (n is halved to keep the evaluation shallow).
StoredCopyLoop(inp, st, n) ==
    IF n <= 0 \/ st.err # NoError THEN st
    ELSE IF n = 1 THEN StoredCopyStep(inp, st)
    ELSE LET Rest(left) ==
                 IF left.err # NoError THEN left
                 ELSE StoredCopyLoop(inp, left, n - (n \div 2))
         IN Rest(StoredCopyLoop(inp, st, n \div 2))

\* _decompress_uncompressed_block without the comparison of len and nlen.
DecompressUncompressedBlockNoCheck(inp, s, h, out) ==
    LET Lengths(r) ==
            IF r.err # NoError THEN [s |-> r.s, h |-> h, out |-> out, err |-> r.err]
            ELSE StoredCopyLoop(inp, [s |-> r.s, h |-> h, out |-> out, err |-> NoError],
                                r.vals[1])
        Aligned(a) ==
            IF a.err # NoError THEN [s |-> a.s, h |-> h, out |-> out, err |-> a.err]
            ELSE Lengths(ReadFields(inp, a.s, <<16, 16>>, 1, <<>>))
    IN Aligned(AlignLoop(inp, s))

\* Decompressor._decompress_uncompressed_block
DecompressUncompressedBlock(inp, s, h, out) ==
    LET \* r: len and nlen
        Lengths(r) ==
            IF r.err # NoError THEN [s |-> r.s, h |-> h, out |-> out, err |-> r.err]
            ELSE IF BitXor(r.vals[1], 65535) # r.vals[2]
            THEN [s |-> r.s, h |-> h, out |-> out, err |-> InvalidStoredLengthError]
            ELSE StoredCopyLoop(inp, [s |-> r.s, h |-> h, out |-> out, err |-> NoError],
                                r.vals[1])
        Aligned(a) ==
            IF a.err # NoError THEN [s |-> a.s, h |-> h, out |-> out, err |-> a.err]
            ELSE Lengths(ReadFields(inp, a.s, <<16, 16>>, 1, <<>>))
    IN Aligned(AlignLoop(inp, s))

\* _decode_run_length with the symbols 286 and 287 taken as the run 258.
DecodeRunLengthNoReserved(inp, s, sym) ==
    LET Extra(numextrabits, r) ==
            IF r.err # NoError THEN r
            ELSE [s |-> r.s, err |-> NoError,
                  val |-> Shl(((sym - 265) % 4) + 4, numextrabits) + 3 + r.val]
    IN IF ~(257 <= sym /\ sym <= 287) THEN [s |-> s, val |-> -1, err |-> AssertionError]
       ELSE IF sym <= 264 THEN [s |-> s, val |-> sym - 254, err |-> NoError]
       ELSE IF sym <= 284
       THEN Extra((sym - 261) \div 4, ReadUint(inp, s, (sym - 261) \div 4))
       ELSE [s |-> s, val |-> 258, err |-> NoError]

\* Decompressor._decode_run_length
DecodeRunLength(inp, s, sym) ==
    LET Extra(numextrabits, r) ==
            IF r.err # NoError THEN r
            ELSE [s |-> r.s, err |-> NoError,
                  val |-> Shl(((sym - 265) % 4) + 4, numextrabits) + 3 + r.val]
    IN IF ~(257 <= sym /\ sym <= 287) THEN [s |-> s, val |-> -1, err |-> AssertionError]
       ELSE IF sym <= 264 THEN [s |-> s, val |-> sym - 254, err |-> NoError]
       ELSE IF sym <= 284
       THEN Extra((sym - 261) \div 4, ReadUint(inp, s, (sym - 261) \div 4))
       ELSE IF sym = 285 THEN [s |-> s, val |-> 258, err |-> NoError]
       ELSE [s |-> s, val |-> -1, err |-> ReservedLengthSymbolError]

\* _decode_distance with one extra bit more than the symbol has.
DecodeDistanceWide(inp, s, sym) ==
    LET Extra(numextrabits, r) ==
            IF r.err # NoError THEN r
            ELSE [s |-> r.s, err |-> NoError,
                  val |-> Shl((sym % 2) + 2, numextrabits) + 1 + r.val]
    IN IF ~(0 <= sym /\ sym <= 31) THEN [s |-> s, val |-> -1, err |-> AssertionError]
       ELSE IF sym <= 3 THEN [s |-> s, val |-> sym + 1, err |-> NoError]
       ELSE IF sym <= 29
       THEN Extra(sym \div 2, ReadUint(inp, s, sym \div 2))
       ELSE [s |-> s, val |-> -1, err |-> ReservedDistanceSymbolError]

\* Decompressor._decode_distance
DecodeDistance(inp, s, sym) ==
    LET Extra(numextrabits, r) ==
            IF r.err # NoError THEN r
            ELSE [s |-> r.s, err |-> NoError,
                  val |-> Shl((sym % 2) + 2, numextrabits) + 1 + r.val]
    IN IF ~(0 <= sym /\ sym <= 31) THEN [s |-> s, val |-> -1, err |-> AssertionError]
       ELSE IF sym <= 3 THEN [s |-> s, val |-> sym + 1, err |-> NoError]
       ELSE IF sym <= 29
       THEN Extra((sym \div 2) - 1, ReadUint(inp, s, (sym \div 2) - 1))
       ELSE [s |-> s, val |-> -1, err |-> ReservedDistanceSymbolError]

\* The iteration with the end of the stream at the next symbol taken as
\* nothing to do: the loop goes on from the same position.
HuffmanIterationNoEOF(inp, s, h, out, litlen, distc) ==
    LET Res(t, g, o, e, end, sym, run, distsym, dist) ==
            [s |-> t, h |-> g, out |-> o, err |-> e, end |-> end,
             sym |-> sym, run |-> run, distsym |-> distsym, dist |-> dist]
        Copied(t, c, sym, run, distsym, dist) ==
            Res(t, c.h, c.out, c.err, FALSE, sym, run, distsym, dist)
        Distance(sym, run, distsym, dist) ==
            IF dist.err # NoError
            THEN Res(dist.s, h, out, dist.err, FALSE, sym, run, distsym, -1)
            ELSE IF ~(1 <= dist.val /\ dist.val <= 32768)
            THEN Res(dist.s, h, out, AssertionError, FALSE, sym, run, distsym, dist.val)
            ELSE Copied(dist.s, HistoryCopy(h, dist.val, run, out),
                        sym, run, distsym, dist.val)
        DistanceSymbol(sym, run, d) ==
            IF d.err # NoError THEN Res(d.s, h, out, d.err, FALSE, sym, run, -1, -1)
            ELSE Distance(sym, run, d.val, DecodeDistance(inp, d.s, d.val))
        RunLength(sym, run) ==
            IF run.err # NoError THEN Res(run.s, h, out, run.err, FALSE, sym, -1, -1, -1)
            ELSE IF ~(3 <= run.val /\ run.val <= 258)
            THEN Res(run.s, h, out, AssertionError, FALSE, sym, run.val, -1, -1)
            ELSE IF distc.isnone
            THEN Res(run.s, h, out, EmptyDistanceCodeError, FALSE, sym, run.val, -1, -1)
            ELSE DistanceSymbol(sym, run.val,
                                DecodeNextSymbol(distc.code_bits_to_symbol, inp, run.s))
        Symbol(t, sym) ==
            IF sym = 256 THEN Res(t, h, out, NoError, TRUE, sym, -1, -1, -1)
            ELSE IF sym < 256
            THEN IF ~AppendAssertion(h)
                 THEN Res(t, h, Append(out, sym), AssertionError, FALSE, sym, -1, -1, -1)
                 ELSE Res(t, HistoryAppend(h, sym), Append(out, sym), NoError, FALSE,
                          sym, -1, -1, -1)
            ELSE RunLength(sym, DecodeRunLength(inp, t, sym))
        Decoded(r) ==
            IF r.err = EOFError THEN Res(s, h, out, NoError, FALSE, -1, -1, -1, -1)
            ELSE IF r.err # NoError THEN Res(r.s, h, out, r.err, FALSE, -1, -1, -1, -1)
            ELSE Symbol(r.s, r.val)
    IN Decoded(DecodeNextSymbol(litlen.code_bits_to_symbol, inp, s))

\* One iteration of the loop of Decompressor._decompress_huffman_block: the
\* objects after it, the exception raised, and whether the loop was left
\* (end of block); and, for the record, its locals sym, run, distsym and
\* dist, each -1 when the iteration did not get to assign it.
HuffmanIteration(inp, s, h, out, litlen, distc) ==
    LET Res(t, g, o, e, end, sym, run, distsym, dist) ==
            [s |-> t, h |-> g, out |-> o, err |-> e, end |-> end,
             sym |-> sym, run |-> run, distsym |-> distsym, dist |-> dist]
        Copied(t, c, sym, run, distsym, dist) ==
            Res(t, c.h, c.out, c.err, FALSE, sym, run, distsym, dist)
        Distance(sym, run, distsym, dist) ==
            IF dist.err # NoError
            THEN Res(dist.s, h, out, dist.err, FALSE, sym, run, distsym, -1)
            ELSE IF ~(1 <= dist.val /\ dist.val <= 32768)
            THEN Res(dist.s, h, out, AssertionError, FALSE, sym, run, distsym, dist.val)
            ELSE Copied(dist.s, HistoryCopy(h, dist.val, run, out),
                        sym, run, distsym, dist.val)
        DistanceSymbol(sym, run, d) ==
            IF d.err # NoError THEN Res(d.s, h, out, d.err, FALSE, sym, run, -1, -1)
            ELSE Distance(sym, run, d.val, DecodeDistance(inp, d.s, d.val))
        RunLength(sym, run) ==
            IF run.err # NoError THEN Res(run.s, h, out, run.err, FALSE, sym, -1, -1, -1)
            ELSE IF ~(3 <= run.val /\ run.val <= 258)
            THEN Res(run.s, h, out, AssertionError, FALSE, sym, run.val, -1, -1)
            ELSE IF distc.isnone
            THEN Res(run.s, h, out, EmptyDistanceCodeError, FALSE, sym, run.val, -1, -1)
            ELSE DistanceSymbol(sym, run.val,
                                DecodeNextSymbol(distc.code_bits_to_symbol, inp, run.s))
        Symbol(t, sym) ==
            IF sym = 256 THEN Res(t, h, out, NoError, TRUE, sym, -1, -1, -1)
            ELSE IF sym < 256
            THEN IF ~AppendAssertion(h)
                 THEN Res(t, h, Append(out, sym), AssertionError, FALSE, sym, -1, -1, -1)
                 ELSE Res(t, HistoryAppend(h, sym), Append(out, sym), NoError, FALSE,
                          sym, -1, -1, -1)
            ELSE RunLength(sym, DecodeRunLength(inp, t, sym))
        Decoded(r) ==
            IF r.err # NoError THEN Res(r.s, h, out, r.err, FALSE, -1, -1, -1, -1)
            ELSE Symbol(r.s, r.val)
    IN Decoded(DecodeNextSymbol(litlen.code_bits_to_symbol, inp, s))

-----------------------------------------------------------------------------
(* gzip-decompress.py, main: the footer read from the same byte stream     *)
(* once the decompression has returned.                                    *)

GzipEOFError == "EOFError"

\* The value of `footer` before main reads it.
NoFooter == [read |-> FALSE, crc |-> <<0, 0>>, size |-> <<0, 0>>, err |-> NoError]

\* read_byte of main, on the byte stream at position pos: the position after
\* the call, the byte returned and the exception raised.
ReadByte(inp, pos) ==
    IF pos >= Len(inp) THEN [pos |-> pos, val |-> -1, err |-> GzipEOFError]
    ELSE [pos |-> pos + 1, val |-> inp[pos + 1], err |-> NoError]

\* read_little_int16 of main: "temp = read_byte(); return temp | read_byte() << 8"
ReadLittleInt16(inp, pos) ==
    LET Second(temp, r) ==
            IF r.err # NoError THEN r
            ELSE [pos |-> r.pos, val |-> BitOr(temp, Shl(r.val, 8)), err |-> NoError]
        First(r) == IF r.err # NoError THEN r ELSE Second(r.val, ReadByte(inp, r.pos))
    IN First(ReadByte(inp, pos))

\* read_little_int32 of main: "temp = read_little_int16();
\* return temp | read_little_int16() << 16".  The value returned is
\* val[1] | val[2] << 16: it is held as its two 16-bit halves, since it does
\* not fit TLC's 32-bit signed integers.
ReadLittleInt32(inp, pos) ==
    LET Second(temp, r) ==
            IF r.err # NoError THEN [pos |-> r.pos, val |-> <<0, 0>>, err |-> r.err]
            ELSE [pos |-> r.pos, val |-> <<temp, r.val>>, err |-> NoError]
        First(r) ==
            IF r.err # NoError THEN [pos |-> r.pos, val |-> <<0, 0>>, err |-> r.err]
            ELSE Second(r.val, ReadLittleInt16(inp, r.pos))
    IN First(ReadLittleInt16(inp, pos))

\* The Decompressor variables in the specifications that run no Decompressor.
DecompressorIdle ==
    /\ pc = "Idle"
    /\ isfinal = FALSE
    /\ type = 0
    /\ litlencode = NoneCode
    /\ distcode = NoneCode
    /\ err = NoError
    /\ blocks = <<>>
    /\ footer = NoFooter

-----------------------------------------------------------------------------
(* Specification SpecBits: a BitInputStream over an arbitrary input, read  *)
(* with any sequence of read_bit_maybe and read_uint calls.                *)

RECURSIVE SeqsUpTo(_, _)
\* The sequences over S of length at most n.
SeqsUpTo(S, n) ==
    IF n = 0 THEN {<<>>}
    ELSE LET shorter == SeqsUpTo(S, n - 1)
         IN shorter \cup {Append(q, x) : q \in {t \in shorter : Len(t) = n - 1}, x \in S}

\* lastop before any call.  start is the number of bits returned before the
\* call; eos_before and eos_after tell whether the end of the stream had been
\* reported before the call and by the end of it.
NoOp ==
    [op |-> "none", numbits |-> 0, val |-> 0, err |-> NoError,
     before |-> BitInputStream(0), start |-> 0,
     eos_before |-> FALSE, eos_after |-> FALSE]

InitBits ==
    /\ input \in SeqsUpTo(BitsAlphabet, MaxBitsInputLen)
    /\ bitin = BitInputStream(0)
    /\ lastop = NoOp
    /\ bitlog = <<>>
    /\ codelengths = <<>>
    /\ code = NotConstructed
    /\ dictionary = NoHistory
    /\ output = <<>>
    /\ DecompressorIdle

\* A call of read_bit_maybe.
BitsReadBitMaybe ==
    LET r == ReadBitMaybe(input, bitin)
    IN /\ bitin' = r.s
       /\ lastop' = [op |-> "read_bit_maybe", numbits |-> 1, val |-> r.bit,
                     err |-> NoError, before |-> bitin, start |-> Len(bitlog),
                     eos_before |-> lastop.eos_after,
                     eos_after |-> lastop.eos_after \/ r.bit = -1]
       /\ bitlog' = IF r.bit = -1 THEN bitlog ELSE Append(bitlog, r.bit)
       /\ UNCHANGED <<input, codelengths, code, dictionary, output, decvars>>

RECURSIVE BitsBetween(_, _, _)
\* The bits read_bit_maybe returns while the stream goes from s to t.
BitsBetween(inp, s, t) ==
    IF s.nread >= t.nread THEN <<>>
    ELSE LET r == ReadBitMaybe(inp, s) IN <<r.bit>> \o BitsBetween(inp, r.s, t)

\* A call of read_uint(numbits).
BitsReadUint ==
    \E numbits \in -1 .. MaxNumBits :
        LET r == ReadUint(input, bitin, numbits)
        IN /\ bitin' = r.s
           /\ lastop' = [op |-> "read_uint", numbits |-> numbits, val |-> r.val,
                         err |-> r.err, before |-> bitin, start |-> Len(bitlog),
                         eos_before |-> lastop.eos_after,
                         eos_after |-> lastop.eos_after \/ r.err = EOFError]
           /\ bitlog' = bitlog \o BitsBetween(input, bitin, r.s)
           /\ UNCHANGED <<input, codelengths, code, dictionary, output, decvars>>

NextBits == BitsReadBitMaybe \/ BitsReadUint

SpecBits == InitBits /\ [][NextBits]_vars

-----------------------------------------------------------------------------
(* Specification SpecCode: a CanonicalCode is constructed from an          *)
(* arbitrary vector of code lengths; symbols are then decoded from an      *)
(* arbitrary bit stream.                                                   *)

\* The inputs symbols are decoded from: every pattern of the first
\* MaxCodeLength + 1 bits, and bytes whose high bits make a code span two bytes.
CodeFirstBytes == (0 .. Pow2(MaxCodeLength + 1) - 1) \cup {165, 192, 255}
CodeInputs ==
    {<<>>} \cup {<<a>> : a \in CodeFirstBytes}
           \cup {<<a, b>> : a \in {165, 192, 255}, b \in {0, 90, 255}}

InitCode ==
    /\ codelengths \in SeqsUpTo(0 .. MaxCodeLength, MaxSymbols)
    /\ code = NotConstructed
    /\ input = <<>>
    /\ bitin = BitInputStream(0)
    /\ lastop = NoOp
    /\ bitlog = <<>>
    /\ dictionary = NoHistory
    /\ output = <<>>
    /\ DecompressorIdle

\* code = CanonicalCode(codelengths)
CodeConstruct ==
    /\ code = NotConstructed
    /\ code' = CanonicalCode(codelengths)
    /\ UNCHANGED <<input, bitin, lastop, bitlog, codelengths, dictionary, output, decvars>>

\* A bit stream is opened on some input.
CodeOpenInput ==
    /\ code.err = NoError
    /\ lastop.op = "none"
    /\ input = <<>>
    /\ \E inp \in CodeInputs \ {<<>>} : input' = inp
    /\ bitin' = BitInputStream(0)
    /\ UNCHANGED <<lastop, bitlog, codelengths, code, dictionary, output, decvars>>

\* code.decode_next_symbol(bitin), as long as the last call returned.
CodeDecode ==
    /\ code.err = NoError
    /\ lastop.err = NoError
    /\ LET r == DecodeNextSymbol(code.code_bits_to_symbol, input, bitin)
       IN /\ bitin' = r.s
          /\ lastop' = [op |-> "decode_next_symbol", numbits |-> 0, val |-> r.val,
                        err |-> r.err, before |-> bitin, start |-> bitin.nread,
                        eos_before |-> FALSE, eos_after |-> r.err = EOFError]
    /\ UNCHANGED <<input, bitlog, codelengths, code, dictionary, output, decvars>>

NextCode == CodeConstruct \/ CodeOpenInput \/ CodeDecode

SpecCode == InitCode /\ [][NextCode]_vars

-----------------------------------------------------------------------------
(* Specification SpecHistory: a ByteHistory that receives any sequence of  *)
(* append and copy calls, with valid and invalid arguments.                *)

InitHistory ==
    /\ dictionary = ByteHistory(HistorySize)
    /\ output = <<>>
    /\ lastop = NoOp
    /\ input = <<>>
    /\ bitin = BitInputStream(0)
    /\ bitlog = <<>>
    /\ codelengths = <<>>
    /\ code = NotConstructed
    /\ DecompressorIdle

\* dictionary.append(b)
HistoryDoAppend ==
    /\ Len(dictionary.log) < MaxHistoryStream
    /\ AppendAssertion(dictionary)
    /\ \E b \in HistoryAlphabet :
           /\ dictionary' = HistoryAppend(dictionary, b)
           /\ lastop' = [op |-> "append", dist |-> 0, count |-> 0, err |-> NoError,
                         before |-> dictionary, out_before |-> output]
    /\ UNCHANGED <<output, input, bitin, bitlog, codelengths, code, decvars>>

\* dictionary.copy(dist, count, output)
HistoryDoCopy ==
    \E dist \in -1 .. HistorySize + 1, count \in -1 .. MaxCopyCount :
        /\ Len(dictionary.log) + count <= MaxHistoryStream
        /\ LET r == HistoryCopy(dictionary, dist, count, output)
           IN /\ dictionary' = r.h
              /\ output' = r.out
              /\ lastop' = [op |-> "copy", dist |-> dist, count |-> count, err |-> r.err,
                            before |-> dictionary, out_before |-> output]
        /\ UNCHANGED <<input, bitin, bitlog, codelengths, code, decvars>>

NextHistory == HistoryDoAppend \/ HistoryDoCopy

SpecHistory == InitHistory /\ [][NextHistory]_vars

-----------------------------------------------------------------------------
(* Specification SpecRepair: the distance code of a dynamic block is built *)
(* from every distance code-length vector of 1 to 32 entries that is 0     *)
(* except for one entry anywhere and, possibly, a 1 at its first or last   *)
(* index.                                                                  *)

RepairInputs ==
    UNION {{[i \in 1 .. n |-> IF i = p THEN a ELSE IF i = q THEN b ELSE 0] :
                p \in 1 .. n, q \in {1, n}, a \in 0 .. MaxCodeLength, b \in 0 .. 1} :
           n \in 1 .. MaxDistCodes}

InitRepair ==
    /\ codelengths \in RepairInputs
    /\ code = NotConstructed
    /\ lastop = NoOp
    /\ input = <<>>
    /\ bitin = BitInputStream(0)
    /\ bitlog = <<>>
    /\ dictionary = NoHistory
    /\ output = <<>>
    /\ DecompressorIdle

\* distcodelen = codelens[numlitlencodes : ] up to the return of the function
RepairBuild ==
    /\ lastop = NoOp
    /\ LET Built(r) ==
               /\ distcode' = r.distcode
               /\ err' = r.err
               /\ lastop' = [op |-> "distance_code", distcodelen |-> r.passed,
                             isnone |-> r.distcode.isnone, err |-> r.err]
       IN Built(DistanceCode(codelengths))
    /\ UNCHANGED <<input, bitin, bitlog, codelengths, code, dictionary, output,
                   pc, isfinal, type, litlencode, blocks, footer>>

NextRepair == RepairBuild

SpecRepair == InitRepair /\ [][NextRepair]_vars

-----------------------------------------------------------------------------
(* Specification SpecRange: a length symbol or a distance symbol is        *)
(* decoded as in the Huffman loop, for every symbol and every value of the *)
(* bits that follow it in the stream.                                      *)

\* The number of bits that follow a symbol in the stream (RFC 1951, 3.2.5).
LengthExtraBits(sym) == IF 265 <= sym /\ sym <= 284 THEN (sym - 261) \div 4 ELSE 0
DistanceExtraBits(sym) == IF 4 <= sym /\ sym <= 29 THEN (sym \div 2) - 1 ELSE 0

\* A symbol still to be decoded.
PendingSymbol(kind, sym) ==
    [op |-> "pending", kind |-> kind, sym |-> sym, val |-> -1, err |-> NoError,
     numbits |-> 0]

\* The two bytes whose bits, read from the least significant, are the value v.
TwoBytes(v) == <<v % 256, v \div 256>>

InitRange ==
    /\ \/ \E sym \in 257 .. 287 : \E v \in 0 .. Pow2(LengthExtraBits(sym)) - 1 :
              lastop = PendingSymbol("run", sym) /\ input = TwoBytes(v)
       \/ \E sym \in 0 .. 31 : \E v \in 0 .. Pow2(DistanceExtraBits(sym)) - 1 :
              lastop = PendingSymbol("dist", sym) /\ input = TwoBytes(v)
    /\ bitin = BitInputStream(0)
    /\ bitlog = <<>>
    /\ codelengths = <<>>
    /\ code = NotConstructed
    /\ dictionary = NoHistory
    /\ output = <<>>
    /\ DecompressorIdle

\* "run = self._decode_run_length(sym); assert 3 <= run <= 258"
RangeRunLength ==
    /\ lastop.op = "pending"
    /\ lastop.kind = "run"
    /\ LET Decoded(r) ==
               /\ bitin' = r.s
               /\ lastop' = [lastop EXCEPT
                                 !.op = "decoded", !.val = r.val,
                                 !.numbits = r.s.nread - bitin.nread,
                                 !.err = IF r.err # NoError THEN r.err
                                         ELSE IF ~(3 <= r.val /\ r.val <= 258)
                                         THEN AssertionError ELSE NoError]
       IN Decoded(DecodeRunLength(input, bitin, lastop.sym))
    /\ UNCHANGED <<input, bitlog, codelengths, code, dictionary, output, decvars>>

\* "dist = self._decode_distance(distsym); assert 1 <= dist <= 32768"
RangeDistance ==
    /\ lastop.op = "pending"
    /\ lastop.kind = "dist"
    /\ LET Decoded(r) ==
               /\ bitin' = r.s
               /\ lastop' = [lastop EXCEPT
                                 !.op = "decoded", !.val = r.val,
                                 !.numbits = r.s.nread - bitin.nread,
                                 !.err = IF r.err # NoError THEN r.err
                                         ELSE IF ~(1 <= r.val /\ r.val <= 32768)
                                         THEN AssertionError ELSE NoError]
       IN Decoded(DecodeDistance(input, bitin, lastop.sym))
    /\ UNCHANGED <<input, bitlog, codelengths, code, dictionary, output, decvars>>

NextRange == RangeRunLength \/ RangeDistance

SpecRange == InitRange /\ [][NextRange]_vars

-----------------------------------------------------------------------------
(* Specification Spec: Decompressor.__init__ on a BitInputStream over an   *)
(* arbitrary input, followed by main's read of the GZIP footer.  pc is     *)
(* "BetweenBlocks" at the top of the block loop, "InBlock" once a header   *)
(* has been read, "Huffman" inside the loop of _decompress_huffman_block,  *)
(* "Done" when the constructor has returned and "Failed" when it raised.   *)

\* DEFLATE streams built by hand: each is followed by what the repository's
\* decompressor makes of it.
\* A final stored block holding "Hi", then eight footer bytes: output "Hi".
StreamStoredHi == <<1, 2, 0, 253, 255, 72, 105, 1, 2, 3, 4, 5, 6, 7, 8>>
\* A final fixed block: 'a', (run 3, dist 1), 'b', (run 4, dist 2), end of
\* block, which ends at bit 2 of the seventh byte, then the GZIP footer of the
\* output (CRC-32 0xAB584B55, size 9): output "aaaababab".
StreamFixedCopy == <<75, 4, 130, 36, 16, 4, 0, 85, 75, 88, 171, 9, 0, 0, 0>>
\* A stored block "x", an empty fixed block and a final fixed block with
\* (run 4, dist 1), then eight footer bytes: output "xxxxx".
StreamThreeBlocks == <<0, 1, 0, 254, 255, 120, 2, 12, 4, 0, 9, 9, 9, 9, 9, 9, 9, 9>>
\* A final dynamic block with codes for 'a' and 256 and the distance lengths
\* [0]: output "aa".
StreamDynLiterals == <<5, 192, 129, 8, 0, 0, 0, 0, 32, 214, 253, 37, 142>>
\* A dynamic block with codes for 'a', 256, 257 and two distance codes:
\* 'a', (run 3, dist 1), 'a', (run 3, dist 2), then an empty final stored
\* block: output "aaaaaaaa".
StreamDynCopyThenStored ==
    <<12, 193, 129, 0, 0, 0, 0, 128, 32, 214, 252, 37, 190, 204, 11, 0, 0, 255, 255>>
\* A final dynamic block whose distance lengths are [1]: 'a', (run 3, dist 1):
\* output "aaaa".
StreamDynOneDistance == <<13, 192, 129, 0, 0, 0, 0, 128, 32, 214, 252, 37, 62, 11>>
\* A stored block "x", then a final stored block with LEN = 1 and NLEN = 1:
\* ValueError after the output "x".
StreamCorruptStored == <<0, 1, 0, 254, 255, 120, 1, 1, 0, 1, 0, 72>>
\* zlib's raw deflate of "hello".
StreamZlibHello == <<203, 72, 205, 201, 201, 7, 0>>
\* A final dynamic block without a distance code (distance lengths [0]) whose
\* literal/length code has 'a', 256 and 257: 'a', then the length symbol 257.
StreamLiteralsOnlyLength == <<13, 192, 129, 12, 0, 0, 0, 128, 48, 214, 252, 37, 250, 50>>
\* Final fixed blocks: 'a', then the literal/length symbol 286, or 287.
StreamReservedLength == <<75, 28, 3, 0>>
StreamReservedLength287 == <<75, 28, 7, 0>>
\* Final fixed blocks: 'a', the length symbol 257, then the distance symbol
\* 30, or 31.
StreamReservedDistance == <<75, 4, 62, 0>>
StreamReservedDistance31 == <<75, 4, 126, 0>>
\* A final dynamic block that declares 288 literal/length codes, with codes
\* for 'a', 256 and 287: 'a', then the symbol 287.
StreamDyn288 == <<253, 192, 129, 12, 0, 0, 0, 128, 48, 214, 252, 37, 50, 249, 50>>
\* A final dynamic block with 259 literal/length and 4 distance codes whose
\* last code length symbol, 16 with the extra bits 3, repeats the length 2 of
\* symbol 256 over 257, 258 and the four distance codes: 'a', a copy of
\* length 3 at distance 1, end of block.
StreamRunSpans == <<21, 131, 133, 0, 0, 0, 0, 128, 88, 243, 151, 232, 9, 1>>
\* The same code lengths with 3 distance codes declared.
StreamRunExceeds == <<21, 130, 133, 0, 0, 0, 0, 128, 88, 243, 151, 232, 17>>
\* A dynamic block whose first code length symbol is 16.
StreamNoLength == <<21, 130, 133, 0, 0, 0, 0, 128, 158, 21>>
\* A dynamic block with 32 distance code lengths, all 0 but the last, 1.
StreamOneAt31 == <<5, 223, 129, 8, 0, 0, 0, 0, 32, 214, 253, 37, 70, 89>>

CraftedStreams ==
    {StreamStoredHi, StreamFixedCopy, StreamThreeBlocks, StreamDynLiterals,
     StreamDynCopyThenStored, StreamDynOneDistance, StreamCorruptStored,
     StreamZlibHello, StreamLiteralsOnlyLength, StreamReservedLength,
     StreamReservedLength287, StreamReservedDistance, StreamReservedDistance31,
     StreamDyn288, StreamRunSpans, StreamRunExceeds, StreamNoLength, StreamOneAt31}

Inputs ==
    SeqsUpTo(InputAlphabet, MaxInputLen)
        \cup UNION {{SubSeq(c, 1, n) : n \in 0 .. Len(c)} : c \in CraftedStreams}

\* "if isfinal: break" that never leaves the loop.
AfterBlockNeverBreak(final) == "BetweenBlocks"

\* "if isfinal: break" at the end of the loop body: where the constructor is
\* once a block has been decompressed.
AfterBlock(final) == IF final THEN "Done" ELSE "BetweenBlocks"

\* The record of a block whose _decode_huffman_codes has not been called.
NoHuffmanCodes ==
    [called |-> FALSE, looped |-> FALSE, err |-> NoError,
     numlitlencodes |-> 0, numdistcodes |-> 0, codelens |-> <<>>, syms |-> <<>>,
     nodistcode |-> FALSE]

\* blocks with its last entry marked as decompressed to its end, at bit `end`.
BlockDone(bs, end) == [bs EXCEPT ![Len(bs)].done = TRUE, ![Len(bs)].end = end]

Init ==
    /\ input \in Inputs
    /\ bitin = BitInputStream(0)
    /\ dictionary = ByteHistory(DictionarySize)
    /\ output = <<>>
    /\ pc = "BetweenBlocks"
    /\ isfinal = FALSE
    /\ type = 0
    /\ litlencode = NoneCode
    /\ distcode = NoneCode
    /\ err = NoError
    /\ blocks = <<>>
    /\ footer = NoFooter
    /\ lastop = NoOp
    /\ bitlog = <<>>
    /\ codelengths = <<>>
    /\ code = NotConstructed

\* "isfinal = bitin.read_uint(1) != 0; type = self._input.read_uint(2)"
ReadBlockHeader ==
    /\ pc = "BetweenBlocks"
    /\ LET Header(r) ==
               /\ bitin' = r.s
               /\ IF r.err # NoError
                  THEN /\ pc' = "Failed"
                       /\ err' = r.err
                       /\ UNCHANGED <<isfinal, type, blocks>>
                  ELSE /\ pc' = "InBlock"
                       /\ isfinal' = (r.vals[1] # 0)
                       /\ type' = r.vals[2]
                       /\ blocks' = Append(blocks, [isfinal |-> r.vals[1] # 0,
                                                    type |-> r.vals[2],
                                                    at |-> bitin.nread,
                                                    out |-> Len(output),
                                                    done |-> FALSE, end |-> 0,
                                                    codes |-> NoHuffmanCodes])
                       /\ UNCHANGED err
       IN Header(ReadFields(input, bitin, <<1, 2>>, 1, <<>>))
    /\ UNCHANGED <<input, dictionary, output, litlencode, distcode, footer,
                   lastop, bitlog, codelengths, code>>

\* type == 0: self._decompress_uncompressed_block()
UncompressedBlock ==
    /\ pc = "InBlock"
    /\ type = 0
    /\ LET Block(r) ==
               /\ bitin' = r.s
               /\ dictionary' = r.h
               /\ output' = r.out
               /\ err' = r.err
               /\ pc' = IF r.err # NoError THEN "Failed" ELSE AfterBlock(isfinal)
               /\ blocks' = IF r.err # NoError THEN blocks ELSE BlockDone(blocks, r.s.nread)
       IN Block(DecompressUncompressedBlock(input, bitin, dictionary, output))
    /\ UNCHANGED <<input, isfinal, type, litlencode, distcode, footer,
                   lastop, bitlog, codelengths, code>>

\* type == 1: _decompress_huffman_block is entered with the fixed codes.
FixedHuffmanBlock ==
    /\ pc = "InBlock"
    /\ type = 1
    /\ pc' = "Huffman"
    /\ litlencode' = SomeCode(FIXED_LITERAL_LENGTH_CODE)
    /\ distcode' = SomeCode(FIXED_DISTANCE_CODE)
    /\ UNCHANGED <<input, bitin, dictionary, output, isfinal, type, err, blocks, footer,
                   lastop, bitlog, codelengths, code>>

\* type == 2: litlencode, distcode = self._decode_huffman_codes(), and
\* _decompress_huffman_block is entered with them.
DynamicHuffmanBlock ==
    /\ pc = "InBlock"
    /\ type = 2
    /\ LET Codes(r) ==
               /\ bitin' = r.s
               /\ err' = r.err
               /\ pc' = IF r.err # NoError THEN "Failed" ELSE "Huffman"
               /\ litlencode' = r.litlencode
               /\ distcode' = r.distcode
               /\ blocks' = [blocks EXCEPT ![Len(blocks)].codes =
                                 [called |-> TRUE, looped |-> r.looped, err |-> r.err,
                                  numlitlencodes |-> r.numlitlencodes,
                                  numdistcodes |-> r.numdistcodes,
                                  codelens |-> r.codelens, syms |-> r.syms,
                                  nodistcode |-> r.distcode.isnone]]
       IN Codes(DecodeHuffmanCodes(input, bitin))
    /\ UNCHANGED <<input, dictionary, output, isfinal, type, footer,
                   lastop, bitlog, codelengths, code>>

\* type == 3: raise ValueError("Reserved block type")
ReservedBlockType ==
    /\ pc = "InBlock"
    /\ type = 3
    /\ pc' = "Failed"
    /\ err' = ReservedBlockTypeError
    /\ UNCHANGED <<input, bitin, dictionary, output, isfinal, type, litlencode, distcode,
                   blocks, footer, lastop, bitlog, codelengths, code>>

\* One iteration of the loop of _decompress_huffman_block.
HuffmanSymbol ==
    /\ pc = "Huffman"
    /\ LET Iteration(r, left) ==
               /\ bitin' = r.s
               /\ dictionary' = r.h
               /\ output' = r.out
               /\ err' = r.err
               /\ pc' = IF r.err # NoError THEN "Failed"
                        ELSE IF r.end THEN AfterBlock(isfinal) ELSE "Huffman"
               /\ blocks' = IF r.err = NoError /\ r.end THEN BlockDone(blocks, r.s.nread)
                            ELSE blocks
               /\ litlencode' = IF left THEN NoneCode ELSE litlencode
               /\ distcode' = IF left THEN NoneCode ELSE distcode
               /\ lastop' = [op |-> "huffman_iteration", sym |-> r.sym, run |-> r.run,
                             distsym |-> r.distsym, dist |-> r.dist, err |-> r.err,
                             start |-> bitin.nread, out_before |-> Len(output),
                             nodistcode |-> distcode.isnone, end |-> r.end,
                             emitted |-> SubSeq(r.out, Len(output) + 1, Len(r.out)),
                             logged |-> SubSeq(r.h.log, Len(dictionary.log) + 1,
                                               Len(r.h.log))]
           Left(r) == Iteration(r, r.err # NoError \/ r.end)
       IN Left(HuffmanIteration(input, bitin, dictionary, output, litlencode, distcode))
    /\ UNCHANGED <<input, isfinal, type, footer, bitlog, codelengths, code>>

\* main, after decompress_to_bytes has returned:
\* "crc = read_little_int32(); size = read_little_int32()"
GzipReadFooter ==
    /\ pc = "Done"
    /\ ~footer.read
    /\ LET Footer(c, z) ==
               /\ footer' = [read |-> TRUE, crc |-> c.val, size |-> z.val,
                             err |-> IF c.err # NoError THEN c.err ELSE z.err]
               /\ bitin' = [bitin EXCEPT !.pos = IF c.err # NoError THEN c.pos ELSE z.pos]
           Crc(c) ==
               IF c.err # NoError THEN Footer(c, [pos |-> c.pos, val |-> <<0, 0>>, err |-> c.err])
               ELSE Footer(c, ReadLittleInt32(input, c.pos))
       IN Crc(ReadLittleInt32(input, bitin.pos))
    /\ UNCHANGED <<input, dictionary, output, pc, isfinal, type, litlencode, distcode, err,
                   blocks, lastop, bitlog, codelengths, code>>

Next ==
    \/ ReadBlockHeader
    \/ UncompressedBlock
    \/ FixedHuffmanBlock
    \/ DynamicHuffmanBlock
    \/ ReservedBlockType
    \/ HuffmanSymbol
    \/ GzipReadFooter

Spec == Init /\ [][Next]_vars

-----------------------------------------------------------------------------
(* Specification SpecWindow: the decompression of Spec on whole streams,   *)
(* one of which writes more bytes than the window holds.                   *)

\* A stored block of 32770 bytes, the bytes 1..7 over and over, then a final
\* fixed block: a copy of length 258 at distance 32768, 'a', end of block.
StreamLongStored ==
    <<0, 2, 128, 253, 127>> \o [i \in 1 .. 32770 |-> (i % 7) + 1]
        \o <<27, 189, 255, 63, 17, 0>>

WindowInputs == CraftedStreams \cup {StreamLongStored, <<7>>}

InitWindow ==
    /\ input \in WindowInputs
    /\ bitin = BitInputStream(0)
    /\ dictionary = ByteHistory(DictionarySize)
    /\ output = <<>>
    /\ pc = "BetweenBlocks"
    /\ isfinal = FALSE
    /\ type = 0
    /\ litlencode = NoneCode
    /\ distcode = NoneCode
    /\ err = NoError
    /\ blocks = <<>>
    /\ footer = NoFooter
    /\ lastop = NoOp
    /\ bitlog = <<>>
    /\ codelengths = <<>>
    /\ code = NotConstructed

SpecWindow == InitWindow /\ [][Next]_vars

\* The constructor has raised, or it has returned and main has read the
\* footer: nothing is left to run.  In every other state a step of Next is
\* possible and changes the state.
Stopped == pc = "Failed" \/ (pc = "Done" /\ footer.read)

\* The constructor and main run on without being suspended: a step that can
\* be taken is taken.  This is weak fairness of Next, WF_vars(Next), with
\* ENABLED <<Next>>_vars written out as ~Stopped.
SpecFair == Spec /\ ([]<>Stopped \/ []<><<Next>>_vars)

-----------------------------------------------------------------------------
(* Properties of the bit stream (SpecBits).                                *)

\* Bit i (from 0) of the input as RFC 1951 3.1.1 numbers the bits: byte i \div 8,
\* counting from the least significant bit.
StreamBit(inp, i) == (inp[(i \div 8) + 1] \div Pow2(i % 8)) % 2

RECURSIVE LittleEndianValue(_, _, _)
\* The integer whose bit j is bit start + j of the input, for j < n.
LittleEndianValue(inp, start, n) ==
    IF n = 0 THEN 0
    ELSE StreamBit(inp, start) + 2 * LittleEndianValue(inp, start + 1, n - 1)

\* C6: Bit-position law.  After k bits have been read from a fresh stream
\* get_bit_position() is k mod 8; it is always in 0..7 and its assertion
\* 0 <= num_bits_remaining <= 7 holds between calls; and it is 0 exactly when
\* the next bit does not come from the byte already pulled: a read_bit_maybe
\* that returns a bit pulls a new byte from the reader if and only if the
\* position before it was 0.
C6_BitPositionLaw ==
    /\ BitPositionAssertion(bitin)
    /\ GetBitPosition(bitin) \in 0 .. 7
    /\ GetBitPosition(bitin) = Len(bitlog) % 8
    /\ (lastop.op = "read_bit_maybe" /\ lastop.val # -1) =>
           /\ (GetBitPosition(lastop.before) = 0) <=> (bitin.pos = lastop.before.pos + 1)
           /\ (GetBitPosition(lastop.before) # 0) <=> (bitin.pos = lastop.before.pos)

\* C6 witness: eleven bits have been read one at a time, the last of them from
\* the middle of the second byte.
C6_Witness ==
    /\ Len(bitlog) = 11
    /\ lastop.op = "read_bit_maybe"
    /\ lastop.val # -1
    /\ GetBitPosition(bitin) = 3

\* C7: Bit order.  The bits come out least significant bit of each byte first,
\* bytes in stream order; read_uint(k) returns the integer whose bit i is the
\* i-th bit it read, also across a byte boundary; read_uint(0) returns 0 and
\* leaves the stream as it was.
C7_BitOrder ==
    /\ \A i \in 1 .. Len(bitlog) : bitlog[i] = StreamBit(input, i - 1)
    /\ (lastop.op = "read_uint" /\ lastop.err = NoError) =>
           /\ lastop.val = LittleEndianValue(input, lastop.start, lastop.numbits)
           /\ Len(bitlog) = lastop.start + lastop.numbits
    /\ (lastop.op = "read_uint" /\ lastop.numbits = 0) =>
           /\ lastop.err = NoError
           /\ lastop.val = 0
           /\ bitin = lastop.before

\* C7 witness: a read_uint(9) that starts at bit 5 of the byte 0xA5 and ends in
\* the byte 0x87 has returned 0x3D (0b000111101).
C7_Witness ==
    /\ input = <<165, 135>>
    /\ lastop.op = "read_uint"
    /\ lastop.numbits = 9
    /\ lastop.start = 5
    /\ lastop.err = NoError
    /\ lastop.val = 61

\* C8: End of stream.  read_bit_maybe returns -1 only when the reader has no
\* further byte and no bit of the current byte is left, so only on a byte
\* boundary and after every bit of the input has been returned; once the end
\* has been reported, every later read_bit_maybe returns -1; and read_uint(k)
\* raises EOFError exactly when fewer than k bits are left.
C8_EndOfStream ==
    /\ (lastop.op = "read_bit_maybe" /\ lastop.val = -1) =>
           /\ lastop.before.pos = Len(input)
           /\ lastop.before.num_bits_remaining = 0
           /\ Len(bitlog) % 8 = 0
           /\ Len(bitlog) = 8 * Len(input)
    /\ (lastop.op = "read_bit_maybe" /\ lastop.eos_before) => lastop.val = -1
    /\ (lastop.op = "read_uint" /\ lastop.numbits >= 0) =>
           ((lastop.err = EOFError) <=> (lastop.numbits > 8 * Len(input) - lastop.start))
    /\ (lastop.op = "read_uint" /\ lastop.err = EOFError) => Len(bitlog) = 8 * Len(input)

\* C8 witness: after a read_uint that ran into the end of a two-byte input in
\* the middle of its bits, read_bit_maybe has returned -1 again.
C8_Witness ==
    /\ Len(input) = 2
    /\ lastop.op = "read_bit_maybe"
    /\ lastop.val = -1
    /\ lastop.eos_before
    /\ Len(bitlog) = 16

-----------------------------------------------------------------------------
(* Properties of the canonical code (SpecCode).                            *)

RECURSIVE KraftSum(_, _, _)
\* The sum of 2^(m - lens[i]) over the entries from i on with lens[i] > 0.
KraftSum(lens, m, i) ==
    IF i > Len(lens) THEN 0
    ELSE (IF lens[i] > 0 THEN Pow2(m - lens[i]) ELSE 0) + KraftSum(lens, m, i + 1)

\* C2: CanonicalCode construction accepts a vector of non-negative code
\* lengths with maximum M exactly when the sum of 2^(M - L[s]) over the symbols
\* with L[s] > 0 equals 2^M; a larger sum is rejected as over-full and a smaller
\* one as under-full (an empty vector has no maximum and is rejected).
C2_AcceptsExactlyCompleteCodes ==
    (code # NotConstructed) =>
        IF Len(codelengths) = 0 THEN code.err # NoError
        ELSE LET m == MaxOf(codelengths)
                 k == KraftSum(codelengths, m, 1)
             IN /\ (code.err = NoError) <=> (k = Pow2(m))
                /\ (k > Pow2(m)) <=> (code.err = OverfullError)
                /\ (k < Pow2(m)) <=> (code.err = UnderfullError)

\* C2 witness: the complete vector [1, 3, 3, 2] has been accepted.
C2_Witness ==
    /\ codelengths = <<1, 3, 3, 2>>
    /\ code.err = NoError
    /\ DOMAIN code.code_bits_to_symbol # {}

RECURSIVE RfcNextCode(_, _)
\* RFC 1951 3.2.2, step 2: the smallest code value of length n.
RfcNextCode(lens, n) ==
    IF n <= 1 THEN 0
    ELSE 2 * (RfcNextCode(lens, n - 1)
              + Cardinality({i \in 1 .. Len(lens) : lens[i] = n - 1}))

\* RFC 1951 3.2.2, step 3: the code value of the symbol at index i: codes of one
\* length are consecutive, in ascending order of the symbol.
RfcCodeOf(lens, i) ==
    RfcNextCode(lens, lens[i]) + Cardinality({j \in 1 .. i - 1 : lens[j] = lens[i]})

\* The bits from bit `start` of the input on are the code of the symbol at
\* index i, most significant bit first.
CodeAt(lens, i, inp, start) ==
    /\ start + lens[i] <= 8 * Len(inp)
    /\ \A j \in 0 .. lens[i] - 1 :
           StreamBit(inp, start + j) = (RfcCodeOf(lens, i) \div Pow2(lens[i] - 1 - j)) % 2

\* C3: Decode round trip.  For an accepted vector and every symbol s with
\* L[s] > 0: when the next L[s] bits of the stream are the canonical code of s,
\* most significant bit first, decode_next_symbol returns s and has consumed
\* exactly L[s] bits.
C3_DecodeRoundTrip ==
    (lastop.op = "decode_next_symbol") =>
        \A i \in 1 .. Len(codelengths) :
            (codelengths[i] > 0 /\ CodeAt(codelengths, i, input, lastop.start)) =>
                /\ lastop.err = NoError
                /\ lastop.val = i - 1
                /\ bitin.nread = lastop.start + codelengths[i]

\* C3 witness: with lengths [2, 1, 3, 3] symbol 3 (code 111) has been decoded
\* from bits 6..8 of the input C0 FF, across the byte boundary.
C3_Witness ==
    /\ codelengths = <<2, 1, 3, 3>>
    /\ input = <<192, 255>>
    /\ lastop.op = "decode_next_symbol"
    /\ lastop.start = 6
    /\ CodeAt(codelengths, 4, input, lastop.start)
    /\ lastop.val = 3
    /\ bitin.nread = 9

-----------------------------------------------------------------------------
(* Properties of the byte history (SpecHistory).                           *)

\* C4: LZ77 copy.  A copy(dist, count, out) with 1 <= dist <= length and
\* count >= 0 writes exactly count bytes, and the i-th of them is the byte dist
\* positions before it in the logical stream (the bytes appended before the
\* call followed by the bytes this copy has written).  So with dist >= count
\* it writes the count bytes appended dist .. dist - count + 1 positions ago, and
\* with dist = 1 it writes count copies of the last byte appended, also when
\* the history is full.
C4_CopyIsLz77 ==
    (lastop.op = "copy" /\ 1 <= lastop.dist /\ lastop.dist <= lastop.before.length
                        /\ lastop.count >= 0) =>
        LET n == Len(lastop.before.log)
            o == Len(lastop.out_before)
            logical == dictionary.log
        IN /\ lastop.err = NoError
           /\ Len(output) = o + lastop.count
           /\ SubSeq(output, 1, o) = lastop.out_before
           /\ Len(logical) = n + lastop.count
           /\ SubSeq(logical, 1, n) = lastop.before.log
           /\ \A i \in 1 .. lastop.count :
                  /\ output[o + i] = logical[n + i]
                  /\ output[o + i] = logical[n + i - lastop.dist]
           /\ (lastop.dist >= lastop.count) =>
                  SubSeq(output, o + 1, o + lastop.count)
                      = SubSeq(lastop.before.log, n - lastop.dist + 1,
                               n - lastop.dist + lastop.count)
           /\ (lastop.dist = 1) =>
                  \A i \in 1 .. lastop.count : output[o + i] = lastop.before.log[n]

\* C4 witness: with the history full (4 bytes appended to a history of 3), a
\* copy with dist = 2 and count = 3 has written 9, 7 and again 9, the last of
\* them a byte that this copy wrote itself.
C4_Witness ==
    /\ lastop.op = "copy"
    /\ lastop.err = NoError
    /\ lastop.before.log = <<7, 7, 9, 7>>
    /\ lastop.before.length = lastop.before.size
    /\ lastop.dist = 2
    /\ lastop.count = 3
    /\ SubSeq(output, Len(output) - 2, Len(output)) = <<9, 7, 9>>

\* C5: copy(dist, count, out) raises ValueError whenever dist < 1,
\* dist > length or count < 0, where length is the number of bytes appended so
\* far saturated at the size; it then writes nothing and leaves the history
\* unchanged.  In particular every copy from an empty history is rejected.
C5_InvalidCopyRejected ==
    /\ dictionary.length = Min(Len(dictionary.log), dictionary.size)
    /\ (lastop.op = "copy" /\ (lastop.dist < 1 \/ lastop.dist > lastop.before.length
                                \/ lastop.count < 0)) =>
           /\ lastop.err = InvalidCopyError
           /\ output = lastop.out_before
           /\ dictionary = lastop.before
    /\ (lastop.op = "copy" /\ Len(lastop.before.log) = 0) => lastop.err = InvalidCopyError

\* C5 witness: a copy with dist = 3 has been rejected by a history that holds
\* two bytes, after an earlier copy had written to the output.
C5_Witness ==
    /\ lastop.op = "copy"
    /\ lastop.err = InvalidCopyError
    /\ lastop.dist = 3
    /\ lastop.count = 1
    /\ lastop.before.length = 2
    /\ Len(output) = 1

-----------------------------------------------------------------------------
(* Properties of the Decompressor and of the reader it leaves behind        *)
(* (Spec).                                                                  *)

\* The last block whose header has been read.
LastBlock == blocks[Len(blocks)]

\* C9: Block state machine.  Every block starts with a 3-bit header, BFINAL
\* then BTYPE, read where the block before it ended (the first at bit 0); a
\* block is consumed to completion before anything else is read; after a block
\* with BFINAL = 0 the next header is read and after a block with BFINAL = 1
\* the decompressor stops.  It is Done exactly when the first block with
\* BFINAL = 1 has been consumed: never after a block with BFINAL = 0, and no
\* bit is read after the final block.
C9_BlockStateMachine ==
    /\ \A i \in 1 .. Len(blocks) :
           /\ blocks[i].at = IF i = 1 THEN 0 ELSE blocks[i - 1].end
           /\ blocks[i].isfinal = (StreamBit(input, blocks[i].at) = 1)
           /\ blocks[i].type = StreamBit(input, blocks[i].at + 1)
                                   + 2 * StreamBit(input, blocks[i].at + 2)
           /\ blocks[i].done => blocks[i].end >= blocks[i].at + 3
           /\ i < Len(blocks) => blocks[i].done /\ ~blocks[i].isfinal
    /\ (pc = "Done") <=> (blocks # <<>> /\ LastBlock.done /\ LastBlock.isfinal)
    /\ (pc = "BetweenBlocks") => (blocks = <<>> \/ (LastBlock.done /\ ~LastBlock.isfinal))
    /\ (blocks # <<>> /\ LastBlock.done /\ ~LastBlock.isfinal) =>
           pc \in {"BetweenBlocks", "Failed"}
    /\ (pc \in {"InBlock", "Huffman"}) => (blocks # <<>> /\ ~LastBlock.done)
    /\ (pc = "InBlock") => (bitin.nread = LastBlock.at + 3
                               /\ isfinal = LastBlock.isfinal /\ type = LastBlock.type)
    /\ (pc = "BetweenBlocks" /\ blocks # <<>>) => bitin.nread = LastBlock.end
    /\ (pc = "Done") => (bitin.nread = LastBlock.end /\ err = NoError)

\* C9 witness: a stored block and a fixed block with BFINAL = 0, then a fixed
\* block with BFINAL = 1, have been consumed and the decompressor is Done.
C9_Witness ==
    /\ pc = "Done"
    /\ Len(blocks) = 3
    /\ blocks[1].type = 0 /\ ~blocks[1].isfinal
    /\ blocks[2].type = 1 /\ ~blocks[2].isfinal
    /\ blocks[3].type = 1 /\ blocks[3].isfinal
    /\ output = <<120, 120, 120, 120, 120>>

\* ceil(n / 8)
CeilDiv8(n) == (n + 7) \div 8

\* The two 16-bit halves, low half first, of the little-endian integer held
\* by the four bytes after the first pos bytes of the input.
FourBytesAt(inp, pos) ==
    <<inp[pos + 1] + 256 * inp[pos + 2], inp[pos + 3] + 256 * inp[pos + 4]>>

\* C10: Reader position on success.  At every moment of the decompression the
\* number of bytes pulled from the reader is ceil(bits consumed / 8): no byte
\* is pulled before a bit of it is consumed.  When the decompressor is Done the
\* reader is at the byte immediately following the byte that holds the last
\* bit of the final block, so main reads the footer from there.
C10_ReaderPosition ==
    /\ ~footer.read => bitin.pos = CeilDiv8(bitin.nread)
    /\ bitin.pos <= Len(input)
    /\ (pc = "Done" /\ ~footer.read) => bitin.pos = ((LastBlock.end - 1) \div 8) + 1
    /\ (footer.read /\ footer.err = NoError) =>
           /\ footer.crc = FourBytesAt(input, CeilDiv8(LastBlock.end))
           /\ footer.size = FourBytesAt(input, CeilDiv8(LastBlock.end) + 4)
           /\ bitin.pos = CeilDiv8(LastBlock.end) + 8
    /\ (footer.read /\ footer.err # NoError) =>
           /\ Len(input) < CeilDiv8(LastBlock.end) + 8
           /\ bitin.pos = Len(input)

\* C10 witness: the final block ended at bit 2 of the seventh byte, and main
\* has read the footer from the eight bytes that follow that byte.
C10_Witness ==
    /\ pc = "Done"
    /\ LastBlock.end = 50
    /\ output = <<97, 97, 97, 97, 98, 97, 98, 97, 98>>
    /\ footer.read
    /\ footer.err = NoError
    /\ footer.crc = <<19285, 43864>>    \* 0xAB584B55
    /\ footer.size = <<9, 0>>
    /\ bitin.pos = 15

-----------------------------------------------------------------------------
(* Properties of the stored block (Spec).                                   *)

\* The first bit after the header of block b that lies on a byte boundary.
StoredStart(b) == 8 * CeilDiv8(b.at + 3)

\* LEN and NLEN of the stored block b as the input holds them.
StoredLen(b) == LittleEndianValue(input, StoredStart(b), 16)
StoredNlen(b) == LittleEndianValue(input, StoredStart(b) + 16, 16)

\* The length of the output when block i had been decompressed.
OutputAfter(i) == IF i < Len(blocks) THEN blocks[i + 1].out ELSE Len(output)

\* C11: Stored block.  A block with BTYPE = 0 that has been decompressed had
\* LEN xor NLEN = 0xFFFF (LEN + NLEN = 65535), both read as 16-bit
\* little-endian values at the first byte boundary after the header (no bit is
\* discarded when the header ends on one); it emitted exactly the LEN input
\* bytes that follow NLEN, unchanged and in order, to the output and to the
\* history, and ended right after them; with LEN = 0 it emitted nothing.  A
\* stored block with a valid header fails only when the input ends before its
\* last byte.
C11_StoredBlock ==
    /\ \A i \in 1 .. Len(blocks) :
           (blocks[i].type = 0 /\ blocks[i].done) =>
               /\ StoredLen(blocks[i]) + StoredNlen(blocks[i]) = 65535
               /\ blocks[i].end = StoredStart(blocks[i]) + 32 + 8 * StoredLen(blocks[i])
               /\ OutputAfter(i) = blocks[i].out + StoredLen(blocks[i])
               /\ \A k \in 1 .. StoredLen(blocks[i]) :
                      /\ output[blocks[i].out + k]
                             = input[(StoredStart(blocks[i]) \div 8) + 4 + k]
                      /\ dictionary.log[blocks[i].out + k] = output[blocks[i].out + k]
    /\ (pc = "Failed" /\ blocks # <<>> /\ LastBlock.type = 0 /\ ~LastBlock.done
            /\ 8 * Len(input) >= StoredStart(LastBlock) + 32
            /\ StoredLen(LastBlock) + StoredNlen(LastBlock) = 65535) =>
           /\ err = EOFError
           /\ 8 * Len(input) < StoredStart(LastBlock) + 32 + 8 * StoredLen(LastBlock)

\* C11 witness: the final stored block of the stream 01 02 00 FD FF 48 69,
\* whose header is followed by five bits of padding, has been decompressed to
\* "Hi".
C11_Witness ==
    /\ pc = "Done"
    /\ Len(blocks) = 1
    /\ LastBlock.type = 0
    /\ StoredLen(LastBlock) = 2
    /\ LastBlock.end = 56
    /\ output = <<72, 105>>
    /\ input = StreamStoredHi

\* C12: Corrupt stored header.  A stored block whose LEN xor NLEN differs from
\* 0xFFFF (LEN + NLEN # 65535) makes the decompression fail with ValueError
\* "Invalid length in uncompressed block" as soon as LEN and NLEN have been
\* read: no byte of that block has been written to the output or appended to
\* the history.  The error is raised by no other block.
C12_CorruptStoredHeader ==
    /\ (err = InvalidStoredLengthError) =>
           /\ pc = "Failed"
           /\ LastBlock.type = 0
           /\ ~LastBlock.done
           /\ StoredLen(LastBlock) + StoredNlen(LastBlock) # 65535
           /\ bitin.nread = StoredStart(LastBlock) + 32
           /\ Len(output) = LastBlock.out
           /\ dictionary.log = output
    /\ (blocks # <<>> /\ LastBlock.type = 0 /\ pc # "InBlock"
            /\ 8 * Len(input) >= StoredStart(LastBlock) + 32
            /\ StoredLen(LastBlock) + StoredNlen(LastBlock) # 65535) =>
           err = InvalidStoredLengthError

\* C12 witness: after a stored block "x", a stored header with LEN = 1 and
\* NLEN = 1 has been rejected although a byte follows it; the output is "x".
C12_Witness ==
    /\ pc = "Failed"
    /\ err = InvalidStoredLengthError
    /\ Len(blocks) = 2
    /\ StoredLen(LastBlock) = 1
    /\ StoredNlen(LastBlock) = 1
    /\ output = <<120>>
    /\ dictionary.log = <<120>>
    /\ Len(input) = 12

-----------------------------------------------------------------------------
(* Further properties of the canonical code (SpecCode).                     *)

\* The vector the constructor was given is not empty and its maximum is 0.
AllZeroLengths == Len(codelengths) > 0 /\ MaxOf(codelengths) = 0

\* C13 as the specification states it: a code-length vector whose maximum is
\* 0 is accepted and yields an empty code; it is not rejected as under-full.
C13_EmptyCodeAccepted ==
    (code # NotConstructed /\ AllZeroLengths) =>
        /\ code.err = NoError
        /\ code.code_bits_to_symbol = <<>>

\* C13, amended: a code-length vector whose maximum is 0 is rejected with
\* ValueError "under-full Huffman code tree" (the allocation loop is empty,
\* nextcode stays 0 and differs from 1 << 0).  No constructed code is empty:
\* a code that the constructor accepts registers at least two entries.
C13_EmptyCodeRejected ==
    /\ (code # NotConstructed /\ AllZeroLengths) => code.err = UnderfullError
    /\ (code # NotConstructed /\ code.err = NoError) =>
           Cardinality(DOMAIN code.code_bits_to_symbol) >= 2

\* C13 witness: the vector [0, 0, 0] has been rejected as under-full.
C13_Witness ==
    /\ codelengths = <<0, 0, 0>>
    /\ code.err = UnderfullError
    /\ code.code_bits_to_symbol = <<>>

RECURSIVE PrefixKey(_, _)
\* The dictionary key of the first n bits of a bit sequence: the start bit
\* followed by the bits, the first bit the most significant.
PrefixKey(bits, n) == IF n = 0 THEN 1 ELSE 2 * PrefixKey(bits, n - 1) + bits[n]

\* The constructor accepted the code lengths.
Accepted == code # NotConstructed /\ code.err = NoError

\* The bits the last decode_next_symbol consumed, and those left before it.
DecodeConsumed == bitin.nread - lastop.start
DecodeLeft == 8 * Len(input) - lastop.start

\* C17: for an accepted code of maximum length M every sequence of M bits has
\* a prefix that is a key of the dictionary; decode_next_symbol never
\* consumes more than M bits, and when at least M bits are left it returns a
\* symbol, whose code length is the number of bits consumed; it fails only
\* with EOFError, with fewer than M bits left.
C17_DecodeWithinMaxBits ==
    /\ Accepted =>
           \A bits \in [1 .. MaxOf(codelengths) -> {0, 1}] :
               \E n \in 1 .. MaxOf(codelengths) :
                   PrefixKey(bits, n) \in DOMAIN code.code_bits_to_symbol
    /\ (Accepted /\ lastop.op = "decode_next_symbol") =>
           /\ DecodeConsumed <= MaxOf(codelengths)
           /\ DecodeLeft >= MaxOf(codelengths) =>
                  /\ lastop.err = NoError
                  /\ DecodeConsumed >= 1
                  /\ lastop.val \in 0 .. Len(codelengths) - 1
                  /\ codelengths[lastop.val + 1] = DecodeConsumed
           /\ lastop.err # NoError =>
                  /\ lastop.err = EOFError
                  /\ DecodeLeft < MaxOf(codelengths)

\* C17 witness: with the code lengths [1, 2, 3, 3] the bits 1, 1, 1 gave the
\* symbol 3 after 3 = M bits.
C17_Witness ==
    /\ codelengths = <<1, 2, 3, 3>>
    /\ Accepted
    /\ lastop.op = "decode_next_symbol"
    /\ lastop.start = 0 /\ bitin.nread = 3
    /\ lastop.val = 3 /\ lastop.err = NoError

-----------------------------------------------------------------------------
(* The distance code of a dynamic block (SpecRepair).                       *)

\* The vector has exactly one entry equal to 1 and no entry greater than 1.
SingleOne(v) ==
    /\ Cardinality({i \in 1 .. Len(v) : v[i] = 1}) = 1
    /\ \A i \in 1 .. Len(v) : v[i] <= 1

\* The index, counted from 0 as the code does, of the only entry equal to 1.
OnlyOne(v) == (CHOOSE i \in 1 .. Len(v) : v[i] = 1) - 1

\* The vector was padded to 32 entries and its index 31 set to 1.
PaddedTo32(v, padded) ==
    /\ Len(padded) = 32
    /\ padded[32] = 1
    /\ \A i \in 1 .. 31 : padded[i] = IF i <= Len(v) THEN v[i] ELSE 0

\* The complete code of two one-bit codewords: 0 for the symbol k, 1 for 31.
TwoCodeDistance(k) == (2 :> k) @@ (3 :> 31)

-----------------------------------------------------------------------------
(* Lengths and distances (SpecRange).                                       *)

\* The smallest length of the symbols 257..285, and the smallest distance of
\* the symbols 0..29 (the tables of RFC 1951, 3.2.5).
LengthBase ==
    <<3, 4, 5, 6, 7, 8, 9, 10, 11, 13, 15, 17, 19, 23, 27, 31, 35, 43, 51, 59,
      67, 83, 99, 115, 131, 163, 195, 227, 258>>
DistanceBase ==
    <<1, 2, 3, 4, 5, 7, 9, 13, 17, 25, 33, 49, 65, 97, 129, 193, 257, 385, 513,
      769, 1025, 1537, 2049, 3073, 4097, 6145, 8193, 12289, 16385, 24577>>

\* The value of the bits that follow the symbol in the stream.
ExtraValue == input[1] + 256 * input[2]

\* C20: every length symbol 257..285 with every value of its extra bits
\* gives a run in 3..258, the smallest length of the symbol plus the value
\* (257..264 give 3..10 and 285 gives 258, with no extra bit read); every
\* distance symbol 0..29 with every value of its extra bits gives a distance
\* in 1..32768, the smallest distance of the symbol plus the value; and the
\* assertions on run and dist that follow never fail.
C20_LengthDistanceRanges ==
    lastop.op = "decoded" =>
        /\ lastop.err # AssertionError
        /\ (lastop.kind = "run" /\ lastop.sym \in 257 .. 285) =>
               /\ lastop.err = NoError
               /\ lastop.val \in 3 .. 258
               /\ lastop.val = LengthBase[lastop.sym - 256] + ExtraValue
               /\ lastop.numbits = LengthExtraBits(lastop.sym)
               /\ lastop.sym <= 264 => (lastop.val = lastop.sym - 254 /\ lastop.numbits = 0)
               /\ lastop.sym = 285 => (lastop.val = 258 /\ lastop.numbits = 0)
        /\ (lastop.kind = "dist" /\ lastop.sym \in 0 .. 29) =>
               /\ lastop.err = NoError
               /\ lastop.val \in 1 .. 32768
               /\ lastop.val = DistanceBase[lastop.sym + 1] + ExtraValue
               /\ lastop.numbits = DistanceExtraBits(lastop.sym)

\* C20 witness: the distance symbol 29 followed by thirteen 1 bits gave the
\* distance 32768.
C20_Witness ==
    /\ lastop.op = "decoded" /\ lastop.kind = "dist"
    /\ lastop.sym = 29 /\ input = <<255, 31>>
    /\ lastop.numbits = 13
    /\ lastop.val = 32768 /\ lastop.err = NoError

-----------------------------------------------------------------------------
(* Huffman blocks (Spec).                                                   *)

\* The code lengths of the literal/length code and of the distance code of a
\* block whose code lengths were all read.
LitLenLengths(c) == SubSeq(c.codelens, 1, c.numlitlencodes)
DistLengths(c) == SubSeq(c.codelens, c.numlitlencodes + 1, Len(c.codelens))

\* _decode_huffman_codes read exactly the code lengths the header declares.
LengthsRead(c) ==
    c.called /\ c.looped /\ Len(c.codelens) = c.numlitlencodes + c.numdistcodes

\* The last step was an iteration of the Huffman loop of a block that has no
\* distance code.
LiteralsOnlyIteration == lastop.op = "huffman_iteration" /\ lastop.nodistcode

C16_ReservedSymbols ==
    /\ lastop.op = "huffman_iteration" =>
           /\ lastop.sym \in {286, 287} =>
                  /\ lastop.err = ReservedLengthSymbolError
                  /\ pc = "Failed" /\ err = ReservedLengthSymbolError
                  /\ lastop.emitted = <<>> /\ lastop.logged = <<>>
                  /\ Len(output) = lastop.out_before
           /\ lastop.distsym \in {30, 31} =>
                  /\ lastop.err = ReservedDistanceSymbolError
                  /\ pc = "Failed" /\ err = ReservedDistanceSymbolError
                  /\ lastop.emitted = <<>> /\ lastop.logged = <<>>
                  /\ Len(output) = lastop.out_before
    /\ err = ReservedLengthSymbolError =>
           lastop.op = "huffman_iteration" /\ lastop.sym \in {286, 287}
    /\ err = ReservedDistanceSymbolError =>
           lastop.op = "huffman_iteration" /\ lastop.distsym \in {30, 31}
    /\ \A i \in 1 .. Len(blocks) :
           /\ blocks[i].codes.called =>
                  blocks[i].codes.numlitlencodes \in {0} \cup (257 .. 288)
           /\ (LengthsRead(blocks[i].codes) /\ blocks[i].codes.numlitlencodes >= 287) =>
                  blocks[i].codes.err =
                      IF CanonicalCode(LitLenLengths(blocks[i].codes)).err # NoError
                      THEN CanonicalCode(LitLenLengths(blocks[i].codes)).err
                      ELSE DistanceCode(DistLengths(blocks[i].codes)).err

\* C16 witness: the dynamic block that declares 288 literal/length codes was
\* entered, wrote 'a' and failed at the symbol 287.
C16_Witness ==
    /\ input = StreamDyn288
    /\ pc = "Failed" /\ err = ReservedLengthSymbolError
    /\ LastBlock.codes.numlitlencodes = 288 /\ LastBlock.codes.err = NoError
    /\ lastop.sym = 287
    /\ output = <<97>>

\* What one code length symbol with its extra bits adds after the lengths
\* prev: its value for 0..15; for 16 the last length 3 + extra times; for 17,
\* 3 + extra zeros; for 18, 11 + extra zeros; nothing when it raised.
RunOf(prev, e) ==
    IF e.extra = -1 THEN <<>>
    ELSE IF e.sym <= 15 THEN <<e.sym>>
    ELSE IF e.sym = 16 THEN [k \in 1 .. 3 + e.extra |-> prev[Len(prev)]]
    ELSE IF e.sym = 17 THEN [k \in 1 .. 3 + e.extra |-> 0]
    ELSE [k \in 1 .. 11 + e.extra |-> 0]

RECURSIVE Expand(_, _)
\* The run expansion of the first n code length symbols.
Expand(syms, n) ==
    IF n = 0 THEN <<>>
    ELSE LET After(prev) == prev \o RunOf(prev, syms[n])
         IN After(Expand(syms, n - 1))

\* The extra bits recorded with a code length symbol are those it has.
ExtraInRange(e) ==
    /\ e.sym \in 0 .. 18
    /\ e.sym <= 15 => e.extra = 0
    /\ e.sym = 16 => e.extra \in -1 .. 3
    /\ e.sym = 17 => e.extra \in -1 .. 7
    /\ e.sym = 18 => e.extra \in -1 .. 127

\* The code lengths of a block's header are as C19 states.
ExpansionOf(c) ==
    /\ \A k \in 1 .. Len(c.syms) : ExtraInRange(c.syms[k])
    /\ c.codelens = Expand(c.syms, Len(c.syms))
    /\ \A n \in 0 .. Len(c.syms) - 1 :
           Len(Expand(c.syms, n)) < c.numlitlencodes + c.numdistcodes
    /\ c.err = NoError => Len(c.codelens) = c.numlitlencodes + c.numdistcodes
    /\ c.err = RunExceedsError <=> Len(c.codelens) > c.numlitlencodes + c.numdistcodes
    /\ c.err = NoLengthToCopyError <=> (c.syms # <<>> /\ c.syms[1].sym = 16)
    /\ c.err = NoLengthToCopyError => (Len(c.syms) = 1 /\ c.codelens = <<>>)
    /\ Len(c.codelens) < c.numlitlencodes + c.numdistcodes =>
           c.err \in {EOFError, NoLengthToCopyError}
    /\ Len(c.codelens) = c.numlitlencodes + c.numdistcodes =>
           c.err = IF CanonicalCode(LitLenLengths(c)).err # NoError
                   THEN CanonicalCode(LitLenLengths(c)).err
                   ELSE DistanceCode(DistLengths(c)).err

\* C19: the code lengths of a dynamic header are the run expansion of the
\* code length symbols decoded; decoding stops as soon as there are at least
\* N = numlitlencodes + numdistcodes of them; there are exactly N or the
\* header fails: with "Run exceeds number of codes" when there are more, with
\* "No code length value to copy" when the first symbol is 16.  The first
\* numlitlencodes lengths make the literal/length code and the others the
\* distance code.
C19_CodeLengthExpansion ==
    /\ \A i \in 1 .. Len(blocks) :
           (blocks[i].codes.called /\ blocks[i].codes.looped) =>
               ExpansionOf(blocks[i].codes)
    /\ (pc = "Huffman" /\ LastBlock.type = 2) =>
           /\ litlencode =
                  SomeCode(CanonicalCode(LitLenLengths(LastBlock.codes)).code_bits_to_symbol)
           /\ distcode = DistanceCode(DistLengths(LastBlock.codes)).distcode
    /\ err \in {RunExceedsError, NoLengthToCopyError} =>
           pc = "Failed" /\ LastBlock.type = 2 /\ LastBlock.codes.err = err

\* C19 witness: the last code length symbol, 16 with the extra bits 3,
\* repeated the length 2 over the last two literal/length codes and the four
\* distance codes, and the block was decompressed.
C19_Witness ==
    /\ input = StreamRunSpans
    /\ pc = "Done"
    /\ LastBlock.codes.numlitlencodes = 259 /\ LastBlock.codes.numdistcodes = 4
    /\ LastBlock.codes.syms[Len(LastBlock.codes.syms)] = [sym |-> 16, extra |-> 3]
    /\ Len(LastBlock.codes.codelens) = 263
    /\ DistLengths(LastBlock.codes) = <<2, 2, 2, 2>>
    /\ output = <<97, 97, 97, 97>>

-----------------------------------------------------------------------------
(* Termination (SpecFair).                                                  *)

\* The decompression has returned or raised.
Returned == pc \in {"Done", "Failed"}

\* Every bit of the input has been read.
Exhausted == bitin.nread = 8 * Len(input)

\* A step that leaves the decompression running has read at least one bit,
\* but for the entry into a fixed block, which is followed by the block's
\* first symbol.
StepConsumes ==
    pc' \notin {"Done", "Failed"} =>
        \/ bitin'.nread > bitin.nread
        \/ pc = "InBlock" /\ type = 1 /\ pc' = "Huffman"

\* A step taken with the input exhausted raises EOFError, but for the entry
\* into a fixed block and for the reserved block type.
StepAtEnd ==
    (Exhausted /\ ~Returned) =>
        \/ pc' = "Failed" /\ err' = EOFError
        \/ pc = "InBlock" /\ type = 1 /\ pc' = "Huffman"
        \/ pc = "InBlock" /\ type = 3 /\ pc' = "Failed"

\* C18: on every input the decompression eventually returns (a final block
\* was decompressed) or raises; every step that leaves it running reads at
\* least one bit, and once the input is exhausted the next read raises
\* EOFError.
C18_Terminates ==
    /\ <>Returned
    /\ [][StepConsumes /\ StepAtEnd]_vars

\* C18 witness: a Huffman block met the end of the input at a symbol and the
\* decompression failed with EOFError.
C18_Witness ==
    /\ pc = "Failed" /\ err = EOFError
    /\ lastop.op = "huffman_iteration" /\ lastop.err = EOFError
    /\ Exhausted /\ Len(input) > 0
    /\ Len(output) > 0

-----------------------------------------------------------------------------
(* The window and the output (SpecWindow).                                  *)

\* With the n bytes written so far, the window holds the last min(n, 32768)
\* of them behind its index n mod 32768.
WindowMirrorsOutput ==
    /\ dictionary.log = output
    /\ dictionary.size = 32768
    /\ dictionary.length = Min(Len(output), 32768)
    /\ dictionary.index = Len(output) % 32768
    /\ dictionary.index \in 0 .. 32767
    /\ \A d \in 1 .. dictionary.length :
           DataGet(dictionary, (dictionary.index - d) % 32768) =
               output[Len(output) - d + 1]

\* A step takes nothing back: the output is extended and the length of the
\* window does not decrease.
WindowGrows ==
    /\ Len(output') >= Len(output)
    /\ SubSeq(output', 1, Len(output)) = output
    /\ dictionary'.length >= dictionary.length

\* C21: at every point of the decompression every byte written to the output
\* has been appended to the window in the same order: with n bytes written
\* the window has length min(n, 32768) and index n mod 32768, in 0..32767,
\* and for every d in 1..length the byte at (index - d) mod 32768 is the d-th
\* most recent byte of the output; the length never decreases.
C21_WindowMirrorsOutput ==
    /\ []WindowMirrorsOutput
    /\ [][WindowGrows]_vars

\* C21 witness: the stored block wrote 32770 bytes; the window is full and
\* its index has wrapped around to 2.
C21_Witness ==
    /\ input = StreamLongStored
    /\ pc = "BetweenBlocks"
    /\ Len(output) = 32770
    /\ dictionary.length = 32768
    /\ dictionary.index = 2
    /\ output[32770] = 4 /\ DataGet(dictionary, 1) = 4

=============================================================================
